---------------------------- MODULE Spec2Model ----------------------------
(***************************************************************************)
(* The realtime connection / room / presence core of nebulachat.           *)
(*                                                                         *)
(* The repository holds several server prototypes.  Exactly one of them    *)
(* runs in a deployment; the variable `server` says which:                 *)
(*   "room"   src/backend/objects/Room.js   friend-graph Durable Object    *)
(*   "worker" src/backend/worker.js         global gateway, connections map*)
(*   "sio"    src/unnamed/part_012          Socket.IO server, activeUsers  *)
(*   "ws"     src/unnamed/part_002          node ws server, one room per   *)
(*                                          ?room= query parameter         *)
(*   "cfws"   src/unnamed/part_005          Worker with the same rooms     *)
(*            (src/unnamed/part_003, lines 227-344, is the same program)   *)
(*                                                                         *)
(* Every handler is one action.  A handler of a Durable Object that awaits *)
(* only its own storage is not interleaved with other events (the input    *)
(* gate stays closed during a storage operation), so it is one step.       *)
(* `out` holds the frames the last handler wrote, in emission order, and   *)
(* `last` describes the event it handled.                                  *)
(***************************************************************************)
EXTENDS Naturals, Sequences, FiniteSets

VARIABLES
    server,        \* which server program runs
    budget,        \* how many connections and events this run may see
    sock,          \* the accepted transports, in order of acceptance
    sessions,      \* Room.sessions: userCode -> session
    storedFriends, \* storage key friends:<userCode>
    storedNames,   \* the userCodes with a storage key username:<userCode>
    messages,      \* Room: storage key messages:<channelId>
    appended,      \* history: how many messages each log was ever given
    connections,   \* worker.js: userId -> connection
    activeUsers,   \* part_012: userId -> socket id
    rooms,         \* ws / cfws: roomId -> room object
    heap,          \* ws / cfws: the room objects {clients, messages}
    pending,       \* part_012 / part_014: handlers waiting for the database
    friendsTable,  \* part_014: the friends table and its AUTOINCREMENT counter
    typing,        \* browser: the users whose typing indicator is shown
    timers,        \* browser: the timeouts that are scheduled
    clock,         \* browser: seconds since each user's last typing event
    wire,          \* the envelope being encoded, its JSON text, and its decoding
    client,        \* browser: the WebSocket client object and its sockets
    typingUsers,   \* part_012: channelId -> the user ids that are typing
    nFrames,       \* inbound frames handled in this run
    out,           \* frames written by the last handler
    last           \* the last event handled

vars == <<server, budget, sock, sessions, storedFriends, storedNames, messages,
          appended, connections, activeUsers, rooms, heap, pending,
          friendsTable, typing, timers, clock, wire, client, typingUsers,
          nFrames, out, last>>

(* The state of the REST routes and of the browser, which no socket handler *)
(* touches                                                                  *)
browser == <<typing, timers, clock>>

(* What the socket handlers other than those of part_012 leave alone *)
elsewhere == <<friendsTable, browser, wire, client>>

outside == <<elsewhere, typingUsers>>

----------------------------------------------------------------------------
(* Bounds of the model *)

MaxConns == 3

MaxWork == 4

(* The same two bounds for the runs that start on long logs *)
MaxLogConns == 2

MaxLogWork == 4

(* The same two bounds for the runs that see every frame type and fault *)
MaxFullConns == 2

MaxFullWork == 4

(* REST requests in one run *)
MaxRequests == 3

Budget(conns, work) == [conns |-> conns, work |-> work]

(* Program constants *)

RoomCap == 100

WsCap == 1000

HistoryLimit == 50

OPEN == 1

CLOSED == 3

----------------------------------------------------------------------------
(* Values *)

Users == {"A", "B", "C"}

UserOrder == <<"A", "B", "C">>

Contents == {"hi"}

(* A message text with nothing in it *)
EmptyContent == ""

RoomIds == {"general", "dev"}

Global == [dm |-> FALSE, name |-> "global"]

Dm(u) == [dm |-> TRUE, name |-> u]

Channels == {Global} \cup {Dm(u) : u \in Users}

NoChannel == [dm |-> FALSE, name |-> ""]

NoMsg == [id |-> 0, channel_id |-> NoChannel, author_id |-> "", content |-> ""]

Conns == 1..Len(sock)

Sock(u, r, o) ==
    [user |-> u, room |-> r, obj |-> o, readyState |-> OPEN, closeFired |-> FALSE]

(* A transport whose close listener has run: nothing refers to it any more *)
Gone == [user |-> "", room |-> "", obj |-> 0, readyState |-> CLOSED,
         closeFired |-> TRUE]

IsOpen(K, c) == c \in 1..Len(K) /\ K[c].readyState = OPEN

(* Connections accepted and inbound frames handled so far *)
Work == Len(sock) + nFrames

(* Connection c can deliver one more inbound frame *)
CanReceive(c) == IsOpen(sock, c) /\ Work < budget.work

----------------------------------------------------------------------------
(* JavaScript Map *)

MapHas(m, k) == k \in DOMAIN m

(* A registry that keeps the first binding of a key *)
MapSetIfAbsent(m, k, v) ==
    [x \in (DOMAIN m) \cup {k} |-> IF x \in DOMAIN m THEN m[x] ELSE v]

MapSet(m, k, v) == [x \in (DOMAIN m) \cup {k} |-> IF x = k THEN v ELSE m[x]]

MapDelete(m, k) == [x \in (DOMAIN m) \ {k} |-> m[x]]

EmptyMap == [x \in {} |-> 0]

(* The elements of a set of users as a sequence, in UserOrder *)
RECURSIVE SeqOfUsers(_, _)
SeqOfUsers(S, i) ==
    IF i > Len(UserOrder) THEN <<>>
    ELSE (IF UserOrder[i] \in S THEN <<UserOrder[i]>> ELSE <<>>)
         \o SeqOfUsers(S, i + 1)

----------------------------------------------------------------------------
(* Frames *)

Frame(to, type, userId, msg, friends, history) ==
    [to |-> to, type |-> type, userId |-> userId, msg |-> msg,
     friends |-> friends, history |-> history]

EventFrame(to, type, userId) == Frame(to, type, userId, NoMsg, {}, <<>>)

MsgFrame(to, type, msg) == Frame(to, type, msg.author_id, msg, {}, <<>>)

(* The opaque WebRTC payload (offer, answer or candidate) of a signaling frame *)
Sdp == "sdp"

(* A signaling event: a frame that also carries an opaque payload *)
SignalFrame(to, type, userId, payload) ==
    [to |-> to, type |-> type, userId |-> userId, msg |-> NoMsg,
     friends |-> {}, history |-> <<>>, payload |-> payload]

Event(op, conn, user, prev, target, channel) ==
    [op |-> op, conn |-> conn, user |-> user, prev |-> prev,
     target |-> target, channel |-> channel]

NoEvent == Event("init", 0, "", 0, "", NoChannel)


----------------------------------------------------------------------------
(* Bounded message logs: push, then shift once when the cap is exceeded *)

(* A log that is never trimmed *)
AppendUncapped(log, m, cap) == Append(log, m)

(* A log that refuses the new message once it is full *)
AppendDropNewest(log, m, cap) ==
    IF Len(log) + 1 > cap THEN log ELSE Append(log, m)

AppendCapped(log, m, cap) ==
    LET pushed == Append(log, m)
    IN  IF Len(pushed) > cap THEN Tail(pushed) ELSE pushed

Prefill(n, ch) ==
    [i \in 1..n |-> [id |-> i, channel_id |-> ch, author_id |-> "A",
                     content |-> "hi"]]

----------------------------------------------------------------------------
(* Room.js: the friend-graph Durable Object *)

Session(c, friends) == [ws |-> c, friends |-> friends]

(* A send that does not look at readyState *)
SendToUserUnchecked(S, K, userCode, type, userId, msg, friends) ==
    IF MapHas(S, userCode)
    THEN <<Frame(S[userCode].ws, type, userId, msg, friends, <<>>)>>
    ELSE <<>>

SendToUser(S, K, userCode, type, userId, msg, friends) ==
    IF MapHas(S, userCode) /\ IsOpen(K, S[userCode].ws)
    THEN <<Frame(S[userCode].ws, type, userId, msg, friends, <<>>)>>
    ELSE <<>>

Broadcast(S, K, type, msg) ==
    LET targets == SeqOfUsers({u \in DOMAIN S : IsOpen(K, S[u].ws)}, 1)
    IN  [i \in 1..Len(targets) |-> MsgFrame(S[targets[i]].ws, type, msg)]

(* A presence broadcast that ignores the friend set *)
BroadcastToEveryone(S, K, userCode, type) ==
    IF ~MapHas(S, userCode) THEN <<>>
    ELSE LET targets == SeqOfUsers({f \in (DOMAIN S) \ {userCode} :
                                      IsOpen(K, S[f].ws)}, 1)
         IN  [i \in 1..Len(targets) |->
                 EventFrame(S[targets[i]].ws, type, userCode)]

BroadcastToFriends(S, K, userCode, type) ==
    IF ~MapHas(S, userCode) THEN <<>>
    ELSE LET targets == SeqOfUsers({f \in S[userCode].friends :
                                      MapHas(S, f) /\ IsOpen(K, S[f].ws)}, 1)
         IN  [i \in 1..Len(targets) |->
                 EventFrame(S[targets[i]].ws, type, userCode)]

FriendEntry(S, f) ==
    [id |-> f, status |-> IF MapHas(S, f) THEN "online" ELSE "offline"]

SendFriendsList(S, K, userCode) ==
    IF ~MapHas(S, userCode) THEN <<>>
    ELSE SendToUser(S, K, userCode, "FRIENDS_LIST", userCode, NoMsg,
                    {FriendEntry(S, f) : f \in S[userCode].friends})

otherServers == <<connections, activeUsers, rooms, heap>>

roomStore == <<storedFriends, storedNames, messages, appended>>

(* A connect that tells the friends before it answers the new connection *)
GreetingFriendsFirst(S, K, u) ==
    BroadcastToFriends(S, K, u, "FRIEND_ONLINE")
    \o SendToUser(S, K, u, "USER_REGISTERED", u, NoMsg, {})
    \o SendFriendsList(S, K, u)

(* The frames Room.fetch writes once the session is registered *)
Greeting(S, K, u) ==
    SendToUser(S, K, u, "USER_REGISTERED", u, NoMsg, {})
    \o SendFriendsList(S, K, u)
    \o BroadcastToFriends(S, K, u, "FRIEND_ONLINE")

(* Room.fetch, pathname /websocket: accept, load the friends, register *)
Fetch(u) ==
    /\ server = "room"
    /\ Len(sock) < budget.conns
    /\ Work < budget.work
    /\ LET c == Len(sock) + 1
           K == Append(sock, Sock(u, "", 0))
           S == MapSet(sessions, u, Session(c, storedFriends[u]))
       IN  /\ sock' = K
           /\ sessions' = S
           /\ out' = Greeting(S, K, u)
           /\ last' = Event("connect", c, u,
                            IF MapHas(sessions, u) THEN sessions[u].ws ELSE 0,
                            "", NoChannel)
    /\ UNCHANGED <<server, budget, outside, pending, roomStore, nFrames, otherServers>>

(* The transport of connection c leaves the OPEN state *)
TransportClose(c) ==
    /\ server \in {"room", "worker", "ws", "cfws"}
    /\ IsOpen(sock, c)
    /\ sock' = [sock EXCEPT ![c].readyState = CLOSED]
    /\ out' = <<>>
    /\ last' = Event("drop", c, sock[c].user, 0, "", NoChannel)
    /\ UNCHANGED <<server, budget, outside, pending, sessions, roomStore, nFrames, otherServers>>

(* Room.fetch: the close listener of connection c *)
OnClose(c) ==
    /\ server = "room"
    /\ c \in Conns
    /\ sock[c].readyState = CLOSED
    /\ ~sock[c].closeFired
    /\ LET u == sock[c].user
           K == [sock EXCEPT ![c] = Gone]
           S == MapDelete(sessions, u)
       IN  /\ sock' = K
           /\ sessions' = S
           /\ out' = BroadcastToFriends(S, K, u, "FRIEND_OFFLINE")
           /\ last' = Event("close", c, u,
                            IF MapHas(sessions, u) THEN sessions[u].ws ELSE 0,
                            "", NoChannel)
    /\ UNCHANGED <<server, budget, outside, pending, roomStore, nFrames, otherServers>>

(* A frame on connection c whose sender has no session is dropped *)
Ignored(c, op) ==
    /\ out' = <<>>
    /\ last' = Event(op, c, sock[c].user, 0, "", NoChannel)
    /\ UNCHANGED <<server, budget, outside, pending, sock, sessions, roomStore, otherServers>>

(* Room.handleMessage, USER_REGISTER with a username *)
UserRegister(c) ==
    /\ server = "room"
    /\ CanReceive(c)
    /\ nFrames' = nFrames + 1
    /\ LET u == sock[c].user
       IN  IF ~MapHas(sessions, u) THEN Ignored(c, "USER_REGISTER")
           ELSE /\ storedNames' = storedNames \cup {u}
                /\ out' = <<>>
                /\ last' = Event("USER_REGISTER", c, u, sessions[u].ws, "",
                                 NoChannel)
                /\ UNCHANGED <<server, budget, outside, pending, sock, sessions, storedFriends, messages,
                               appended, otherServers>>

(* An offline friend whose stored list is left as it is *)
StoreOneSided(F, friendCode, userCode) == F

(* handleAddFriend, the friend is offline: friends:<friendCode> is read,   *)
(* given userCode unless it holds it, and written back                     *)
StoreOfflineFriendship(F, friendCode, userCode) ==
    [F EXCEPT ![friendCode] = @ \cup {userCode}]

(* An answer to an unknown friend code that also refreshes the list *)
FriendNotFoundListed(S, K, userCode) ==
    SendToUser(S, K, userCode, "ERROR", userCode, NoMsg, {})
    \o SendFriendsList(S, K, userCode)

(* if (!friendUsername) { this.sendToUser(userCode, 'ERROR', ...); return } *)
FriendNotFound(S, K, userCode) ==
    SendToUser(S, K, userCode, "ERROR", userCode, NoMsg, {})

(* Room.handleAddFriend *)
HandleAddFriend(c, friendCode) ==
    /\ server = "room"
    /\ CanReceive(c)
    /\ nFrames' = nFrames + 1
    /\ LET u == sock[c].user
       IN  IF ~MapHas(sessions, u) THEN Ignored(c, "ADD_FRIEND")
           ELSE IF friendCode \notin storedNames
           THEN /\ out' = FriendNotFound(sessions, sock, u)
                /\ last' = Event("ADD_FRIEND", c, u, sessions[u].ws,
                                 friendCode, NoChannel)
                /\ UNCHANGED <<server, budget, outside, pending, sock, sessions, roomStore, otherServers>>
           ELSE LET S1 == [sessions EXCEPT
                              ![u].friends = @ \cup {friendCode}]
                    F1 == [storedFriends EXCEPT ![u] = S1[u].friends]
                    online == MapHas(S1, friendCode)
                    S2 == IF online
                          THEN [S1 EXCEPT ![friendCode].friends = @ \cup {u}]
                          ELSE S1
                    F2 == IF online
                          THEN [F1 EXCEPT ![friendCode] = S2[friendCode].friends]
                          ELSE StoreOfflineFriendship(F1, friendCode, u)
                IN  /\ sessions' = S2
                    /\ storedFriends' = F2
                    /\ out' = SendToUser(S2, sock, u, "FRIEND_ADDED",
                                         friendCode, NoMsg,
                                         {FriendEntry(S2, friendCode)})
                              \o (IF online
                                  THEN SendToUser(S2, sock, friendCode,
                                                  "FRIEND_ADDED", u, NoMsg,
                                                  {[id |-> u, status |-> "online"]})
                                  ELSE <<>>)
                              \o SendFriendsList(S2, sock, u)
                              \o (IF online
                                  THEN SendFriendsList(S2, sock, friendCode)
                                  ELSE <<>>)
                    /\ last' = Event("ADD_FRIEND", c, u, sessions[u].ws,
                                     friendCode, NoChannel)
                    /\ UNCHANGED <<server, budget, outside, pending, sock, storedNames, messages,
                                   appended, otherServers>>

(* A fan-out that gives the recipient the sender's channel id *)
RoomDeliverSameChannel(S, K, userCode, message) ==
    IF message.channel_id.dm
    THEN SendToUser(S, K, userCode, "MESSAGE_CREATE", userCode, message, {})
         \o SendToUser(S, K, message.channel_id.name, "MESSAGE_CREATE",
                       userCode, message, {})
    ELSE Broadcast(S, K, "MESSAGE_CREATE", message)

(* The frames Room.handleMessage_Create sends for a stored message *)
RoomDeliver(S, K, userCode, message) ==
    IF message.channel_id.dm
    THEN LET recipientCode == message.channel_id.name
         IN  SendToUser(S, K, userCode, "MESSAGE_CREATE", userCode, message, {})
             \o (IF MapHas(S, recipientCode)
                 THEN SendToUser(S, K, recipientCode, "MESSAGE_CREATE",
                                 userCode,
                                 [message EXCEPT !.channel_id = Dm(userCode)],
                                 {})
                 ELSE <<>>)
    ELSE Broadcast(S, K, "MESSAGE_CREATE", message)

(* The storage key under which handleMessage_Create stores a message *)
MessagesKey(userCode, channelId) == channelId

(* Room.handleMessage_Create *)
HandleMessageCreate(c, channelId, content) ==
    /\ server = "room"
    /\ CanReceive(c)
    /\ nFrames' = nFrames + 1
    /\ LET u == sock[c].user
           key == MessagesKey(u, channelId)
           message == [id |-> appended[key] + 1, channel_id |-> channelId,
                       author_id |-> u, content |-> content]
       IN  IF ~MapHas(sessions, u) THEN Ignored(c, "MESSAGE_CREATE")
           ELSE /\ messages' = [messages EXCEPT
                                   ![key] = AppendCapped(@, message, RoomCap)]
                /\ appended' = [appended EXCEPT ![key] = @ + 1]
                /\ out' = RoomDeliver(sessions, sock, u, message)
                /\ last' = Event("MESSAGE_CREATE", c, u, sessions[u].ws,
                                 IF channelId.dm THEN channelId.name ELSE "",
                                 channelId)
                /\ UNCHANGED <<server, budget, outside, pending, sock, sessions, storedFriends,
                               storedNames, otherServers>>

(* Room.handleMessage_Create when storage.get or storage.put rejects: the  *)
(* exception leaves the handler before the fan-out and is logged by the    *)
(* message listener                                                        *)
HandleMessageCreateStorageDown(c, channelId, content) ==
    /\ server = "room"
    /\ CanReceive(c)
    /\ MapHas(sessions, sock[c].user)
    /\ nFrames' = nFrames + 1
    /\ out' = <<>>
    /\ last' = Event("storage-failed", c, sock[c].user,
                     sessions[sock[c].user].ws,
                     IF channelId.dm THEN channelId.name ELSE "", channelId)
    /\ UNCHANGED <<server, budget, outside, pending, sock, sessions, roomStore,
                   otherServers>>

(* A default branch that answers the sender with an ERROR frame *)
DefaultCaseAnswers(K, c) ==
    IF IsOpen(K, c) THEN <<EventFrame(c, "ERROR", "")>> ELSE <<>>

(* The frames of the default branch of handleMessage's switch: it only     *)
(* logs the type                                                           *)
DefaultCase(K, c) == <<>>

(* Room.handleMessage with a type that no case names *)
HandleUnknownType(c) ==
    /\ server = "room"
    /\ CanReceive(c)
    /\ nFrames' = nFrames + 1
    /\ out' = IF MapHas(sessions, sock[c].user) THEN DefaultCase(sock, c)
              ELSE <<>>
    /\ last' = Event("unknown", c, sock[c].user,
                     IF MapHas(sessions, sock[c].user)
                     THEN sessions[sock[c].user].ws ELSE 0,
                     "", NoChannel)
    /\ UNCHANGED <<server, budget, outside, pending, sock, sessions, roomStore,
                   otherServers>>

(* A listener that closes the socket of a frame it could not handle *)
CloseOnError(K, c) == [K EXCEPT ![c].readyState = CLOSED]

(* catch (error) { console.error(...) }: the socket is left as it is *)
CatchAndLog(K, c) == K

BadFrames == {"not-json", "no-payload", "no-channel"}

(* The message listener of Room.fetch when JSON.parse throws (not-json),   *)
(* when the handler throws on its first read of a missing payload          *)
(* (no-payload), or when handleMessage_Create is given a payload without   *)
(* channelId (no-channel): the message is stored under messages:undefined  *)
(* and channelId.startsWith throws before the fan-out                      *)
HandleBadFrame(c, kind) ==
    /\ server = "room"
    /\ CanReceive(c)
    /\ nFrames' = nFrames + 1
    /\ sock' = CatchAndLog(sock, c)
    /\ out' = <<>>
    /\ LET u == sock[c].user
           message == [id |-> appended[NoChannel] + 1, channel_id |-> NoChannel,
                       author_id |-> u, content |-> "hi"]
       IN  /\ last' = Event("bad-frame", c, u,
                            IF MapHas(sessions, u) THEN sessions[u].ws ELSE 0,
                            "", NoChannel)
           /\ IF kind = "no-channel" /\ MapHas(sessions, u)
              THEN /\ messages' = [messages EXCEPT
                                      ![NoChannel] = AppendCapped(@, message, RoomCap)]
                   /\ appended' = [appended EXCEPT ![NoChannel] = @ + 1]
              ELSE UNCHANGED <<messages, appended>>
    /\ UNCHANGED <<server, budget, outside, pending, sessions, storedFriends,
                   storedNames, otherServers>>

(* sendToUser with a signaling payload *)
SendSignal(S, K, userCode, type, userId, payload) ==
    IF MapHas(S, userCode) /\ IsOpen(K, S[userCode].ws)
    THEN <<SignalFrame(S[userCode].ws, type, userId, payload)>>
    ELSE <<>>

(* Room.handleCallOffer *)
HandleCallOffer(c, targetUserId) ==
    /\ server = "room"
    /\ CanReceive(c)
    /\ nFrames' = nFrames + 1
    /\ LET u == sock[c].user
       IN  IF ~MapHas(sessions, u) THEN Ignored(c, "CALL_OFFER")
           ELSE /\ out' = IF MapHas(sessions, targetUserId)
                          THEN SendSignal(sessions, sock, targetUserId,
                                          "INCOMING_CALL", u, Sdp)
                          ELSE <<>>
                /\ last' = Event("CALL_OFFER", c, u, sessions[u].ws,
                                 targetUserId, NoChannel)
                /\ UNCHANGED <<server, budget, outside, pending, sock, sessions, roomStore, otherServers>>

RelayTypes == {"CALL_ANSWER", "ICE_CANDIDATE", "CALL_END"}

(* The outbound type of handleCallAnswer / handleIceCandidate / handleCallEnd *)
RelayedAs(type) ==
    IF type = "CALL_ANSWER" THEN "CALL_ANSWERED"
    ELSE IF type = "CALL_END" THEN "CALL_ENDED"
    ELSE type

(* What the handler copies from the inbound payload: answer or candidate; *)
(* CALL_ENDED carries the user id only                                     *)
RelayedPayload(type) == IF type = "CALL_END" THEN "" ELSE Sdp

(* Room.handleCallAnswer, handleIceCandidate, handleCallEnd *)
HandleCallRelay(c, type, targetUserId) ==
    /\ server = "room"
    /\ CanReceive(c)
    /\ nFrames' = nFrames + 1
    /\ LET u == sock[c].user
       IN  IF ~MapHas(sessions, u) THEN Ignored(c, type)
           ELSE /\ out' = IF MapHas(sessions, targetUserId)
                          THEN SendSignal(sessions, sock, targetUserId,
                                          RelayedAs(type), u,
                                          RelayedPayload(type))
                          ELSE <<>>
                /\ last' = Event(type, c, u, sessions[u].ws, targetUserId,
                                 NoChannel)
                /\ UNCHANGED <<server, budget, outside, pending, sock, sessions,
                               roomStore, otherServers>>

NextRoom ==
    \/ \E c \in Conns : TransportClose(c)
    \/ \E u \in Users : Fetch(u)
    \/ \E c \in Conns : OnClose(c)
    \/ \E c \in Conns : UserRegister(c)
    \/ \E c \in Conns, f \in Users : HandleAddFriend(c, f)
    \/ \E c \in Conns, ch \in Channels, t \in Contents :
          HandleMessageCreate(c, ch, t)
    \/ \E c \in Conns, t \in Users : HandleCallOffer(c, t)

----------------------------------------------------------------------------
(* worker.js: the gateway that keeps the connections map itself and asks    *)
(* the Room object over HTTP for everything else                            *)

roomVars == <<sessions, storedFriends, storedNames, messages, appended>>

(* Room.fetch answers only the pathname /websocket; every other request     *)
(* gets the 404 response with the text body "Not found"                     *)
RoomResponse(pathname) ==
    IF pathname = "/websocket"
    THEN [status |-> 101, json |-> FALSE]
    ELSE [status |-> 404, json |-> FALSE]

(* handleWebSocket, lines 104-118: USERS_LIST is sent when the response of  *)
(* /users parses as JSON; response.json() rejects otherwise                 *)
UsersList(M, K, c, userId) ==
    IF RoomResponse("/users").json /\ IsOpen(K, c)
    THEN <<Frame(c, "USERS_LIST", userId, NoMsg,
                 {[id |-> u, status |-> "online"] : u \in (DOMAIN M) \ {userId}},
                 <<>>)>>
    ELSE <<>>

(* The frames the Room object writes while it serves POST /broadcast *)
RoomBroadcastRequest(M, K, type, userId) ==
    IF RoomResponse("/broadcast").status = 404 THEN <<>>
    ELSE LET targets == SeqOfUsers({u \in (DOMAIN M) \ {userId} :
                                      IsOpen(K, M[u])}, 1)
         IN  [i \in 1..Len(targets) |-> EventFrame(M[targets[i]], type, userId)]

(* handleWebSocket *)
HandleWebSocket(userId) ==
    /\ server = "worker"
    /\ Len(sock) < budget.conns
    /\ Work < budget.work
    /\ LET c == Len(sock) + 1
           K == Append(sock, Sock(userId, "", 0))
           M == MapSet(connections, userId, c)
       IN  /\ sock' = K
           /\ connections' = M
           /\ out' = UsersList(M, K, c, userId)
                     \o RoomBroadcastRequest(M, K, "USER_CONNECTED", userId)
           /\ last' = Event("connect", c, userId,
                            IF MapHas(connections, userId)
                            THEN connections[userId] ELSE 0,
                            "", NoChannel)
    /\ UNCHANGED <<server, budget, outside, pending, roomVars, activeUsers, rooms, heap, nFrames>>

(* handleWebSocket: the close listener of connection c *)
WorkerOnClose(c) ==
    /\ server = "worker"
    /\ c \in Conns
    /\ sock[c].readyState = CLOSED
    /\ ~sock[c].closeFired
    /\ LET userId == sock[c].user
           K == [sock EXCEPT ![c] = Gone]
           M == MapDelete(connections, userId)
       IN  /\ sock' = K
           /\ connections' = M
           /\ out' = RoomBroadcastRequest(M, K, "USER_DISCONNECTED", userId)
           /\ last' = Event("close", c, userId,
                            IF MapHas(connections, userId)
                            THEN connections[userId] ELSE 0,
                            "", NoChannel)
    /\ UNCHANGED <<server, budget, outside, pending, roomVars, activeUsers, rooms, heap, nFrames>>

(* client.send(frame) of worker.js, which does not look at readyState: on a *)
(* transport that is not OPEN the runtime either throws or drops the frame  *)
ClientSend(K, c, frame, throws) ==
    IF IsOpen(K, c) THEN [sent |-> <<frame>>, threw |-> FALSE]
    ELSE [sent |-> <<>>, threw |-> throws]

(* handleMessage, case MESSAGE_CREATE *)
WorkerMessageCreate(c, channelId, content, throws) ==
    /\ server = "worker"
    /\ CanReceive(c)
    /\ nFrames' = nFrames + 1
    /\ LET userId == sock[c].user
           message == [id |-> nFrames + 1, channel_id |-> channelId,
                       author_id |-> userId, content |-> content]
           recipientId == channelId.name
           toRecipient ==
               IF channelId.dm /\ MapHas(connections, recipientId)
               THEN ClientSend(sock, connections[recipientId],
                               MsgFrame(connections[recipientId], "MESSAGE_CREATE",
                                        [message EXCEPT !.channel_id = Dm(userId)]),
                               throws)
               ELSE [sent |-> <<>>, threw |-> FALSE]
           toSender ==
               IF ~toRecipient.threw /\ MapHas(connections, userId)
               THEN ClientSend(sock, connections[userId],
                               MsgFrame(connections[userId], "MESSAGE_CREATE",
                                        message),
                               throws)
               ELSE [sent |-> <<>>, threw |-> FALSE]
       IN  /\ out' = toRecipient.sent \o toSender.sent
           /\ last' = Event("MESSAGE_CREATE", c, userId,
                            IF MapHas(connections, userId)
                            THEN connections[userId] ELSE 0,
                            IF channelId.dm THEN channelId.name ELSE "",
                            channelId)
    /\ UNCHANGED <<server, budget, outside, pending, sock, roomVars, connections, activeUsers, rooms, heap>>

(* handleMessage, case CALL_OFFER: the frame is forwarded as it came *)
WorkerCallOffer(c, targetId, throws) ==
    /\ server = "worker"
    /\ CanReceive(c)
    /\ nFrames' = nFrames + 1
    /\ LET userId == sock[c].user
       IN  /\ out' = IF MapHas(connections, targetId)
                     THEN ClientSend(sock, connections[targetId],
                                     SignalFrame(connections[targetId],
                                                 "CALL_OFFER", "", Sdp),
                                     throws).sent
                     ELSE <<>>
           /\ last' = Event("CALL_OFFER", c, userId,
                            IF MapHas(connections, userId)
                            THEN connections[userId] ELSE 0,
                            targetId, NoChannel)
    /\ UNCHANGED <<server, budget, outside, pending, sock, roomVars, connections, activeUsers, rooms, heap>>

(* handleMessage, cases CALL_ANSWER, ICE_CANDIDATE, CALL_END: the same *)
(* forwarding of {type, payload}                                       *)
WorkerForward(c, type, targetId, throws) ==
    /\ server = "worker"
    /\ CanReceive(c)
    /\ nFrames' = nFrames + 1
    /\ LET userId == sock[c].user
       IN  /\ out' = IF MapHas(connections, targetId)
                     THEN ClientSend(sock, connections[targetId],
                                     SignalFrame(connections[targetId], type, "",
                                                 RelayedPayload(type)),
                                     throws).sent
                     ELSE <<>>
           /\ last' = Event(type, c, userId,
                            IF MapHas(connections, userId)
                            THEN connections[userId] ELSE 0,
                            targetId, NoChannel)
    /\ UNCHANGED <<server, budget, outside, pending, sock, roomVars, connections,
                   activeUsers, rooms, heap>>

(* handleMessage with a type that no case names: the switch has no default *)
WorkerUnknownType(c) ==
    /\ server = "worker"
    /\ CanReceive(c)
    /\ nFrames' = nFrames + 1
    /\ out' = <<>>
    /\ last' = Event("unknown", c, sock[c].user,
                     IF MapHas(connections, sock[c].user)
                     THEN connections[sock[c].user] ELSE 0,
                     "", NoChannel)
    /\ UNCHANGED <<server, budget, outside, pending, sock, roomVars, connections,
                   activeUsers, rooms, heap>>

NextWorker ==
    \/ \E c \in Conns : TransportClose(c)
    \/ \E u \in Users : HandleWebSocket(u)
    \/ \E c \in Conns : WorkerOnClose(c)
    \/ \E c \in Conns, ch \in Channels, t \in Contents, th \in BOOLEAN :
          WorkerMessageCreate(c, ch, t, th)
    \/ \E c \in Conns, t \in Users, th \in BOOLEAN : WorkerCallOffer(c, t, th)

----------------------------------------------------------------------------
(* part_012: the Socket.IO server *)

(* parseInt(targetUserId): the id when the text is one, NaN otherwise *)
ParseInt(text) == IF text \in Users THEN text ELSE "NaN"

TargetTexts == Users \cup {"x"}

(* A broadcast that announces the opposite presence event *)
BroadcastEmitSwapped(K, c, type, userId) ==
    LET targets == {d \in 1..Len(K) : d # c /\ IsOpen(K, d)}
        swapped == IF type = "user-online" THEN "user-offline"
                   ELSE "user-online"
        RECURSIVE From(_)
        From(d) == IF d > Len(K) THEN <<>>
                   ELSE (IF d \in targets
                         THEN <<EventFrame(d, swapped, userId)>> ELSE <<>>)
                        \o From(d + 1)
    IN  From(1)

(* socket.broadcast.emit: every connected socket but the emitting one *)
BroadcastEmit(K, c, type, userId) ==
    LET targets == {d \in 1..Len(K) : d # c /\ IsOpen(K, d)}
        RECURSIVE From(_)
        From(d) == IF d > Len(K) THEN <<>>
                   ELSE (IF d \in targets
                         THEN <<EventFrame(d, type, userId)>> ELSE <<>>)
                        \o From(d + 1)
    IN  From(1)

(* io.on('connection') *)
OnConnection(userId) ==
    /\ server = "sio"
    /\ Len(sock) < budget.conns
    /\ Work < budget.work
    /\ LET c == Len(sock) + 1
           K == Append(sock, Sock(userId, "", 0))
       IN  /\ sock' = K
           /\ activeUsers' = MapSet(activeUsers, userId, c)
           /\ out' = BroadcastEmit(K, c, "user-online", userId)
           /\ last' = Event("connect", c, userId,
                            IF MapHas(activeUsers, userId)
                            THEN activeUsers[userId] ELSE 0,
                            "", NoChannel)
    /\ UNCHANGED <<server, budget, outside, pending, roomVars, connections, rooms, heap, nFrames>>

(* A second channel of the server, and the ids a frame can name *)
OtherChannel == [dm |-> FALSE, name |-> "other"]

ChannelIds == <<Global, OtherChannel>>

(* `channel:${channelId}` *)
RoomOf(channelId) == "channel:" \o channelId.name

(* typingSet.delete(userId); if (typingSet.size === 0) typingUsers.delete *)
TypingDelete(T, channelId, userId) ==
    IF ~MapHas(T, channelId) THEN T
    ELSE IF T[channelId] \ {userId} = {} THEN MapDelete(T, channelId)
    ELSE MapSet(T, channelId, T[channelId] \ {userId})

(* A disconnect that leaves the typing sets as they are *)
KeepTypingSets(T, userId) == T

(* for (const [channelId, typingSet] of typingUsers.entries()) ... *)
RemoveFromTypingSets(T, userId) ==
    TypingDelete(TypingDelete(T, ChannelIds[1], userId), ChannelIds[2], userId)

(* socket.to(room).emit to the sockets that joined the room *)
ToJoined(K, c, channelId, type, userId) ==
    LET RECURSIVE From(_)
        From(d) == IF d > Len(K) THEN <<>>
                   ELSE (IF d # c /\ IsOpen(K, d) /\ K[d].room # ""
                            /\ K[d].room = RoomOf(channelId)
                         THEN <<EventFrame(d, type, userId)>> ELSE <<>>)
                        \o From(d + 1)
    IN  From(1)

(* The user-stop-typing events of a disconnect: one per typing set *)
StopTypingEverywhere(T, K, c, userId) ==
    (IF MapHas(T, ChannelIds[1])
     THEN ToJoined(K, c, ChannelIds[1], "user-stop-typing", userId) ELSE <<>>)
    \o (IF MapHas(T, ChannelIds[2])
        THEN ToJoined(K, c, ChannelIds[2], "user-stop-typing", userId)
        ELSE <<>>)

(* A channel in whose typing set the user is, if there is one *)
TypingIn(T, userId) ==
    IF \E ch \in DOMAIN T : userId \in T[ch]
    THEN CHOOSE ch \in DOMAIN T : userId \in T[ch]
    ELSE NoChannel

(* socket.on('disconnect') *)
OnDisconnect(c) ==
    /\ server = "sio"
    /\ IsOpen(sock, c)
    /\ LET userId == sock[c].user
           K == [sock EXCEPT ![c] = Gone]
       IN  /\ sock' = K
           /\ activeUsers' = MapDelete(activeUsers, userId)
           /\ typingUsers' = RemoveFromTypingSets(typingUsers, userId)
           /\ out' = StopTypingEverywhere(typingUsers, K, c, userId)
                     \o BroadcastEmit(K, c, "user-offline", userId)
           /\ last' = Event("close", c, userId,
                            IF MapHas(activeUsers, userId)
                            THEN activeUsers[userId] ELSE 0,
                            "", TypingIn(typingUsers, userId))
    /\ UNCHANGED <<server, budget, elsewhere, pending, roomVars, connections, rooms, heap, nFrames>>

(* A relay that drops the offer for an unknown target *)
CallUserSilent(M, K, c, key, userId) ==
    IF MapHas(M, key) /\ IsOpen(K, M[key])
    THEN <<EventFrame(M[key], "incoming-call", userId)>>
    ELSE <<>>

(* The emits of the call-user listener: incoming-call to the target's      *)
(* socket, or call-error to the calling socket when the target has none    *)
CallUser(M, K, c, key, userId) ==
    IF MapHas(M, key)
    THEN (IF IsOpen(K, M[key])
          THEN <<EventFrame(M[key], "incoming-call", userId)>>
          ELSE <<>>)
    ELSE <<EventFrame(c, "call-error", "")>>

(* socket.on('call-user') *)
OnCallUser(c, targetUserId) ==
    /\ server = "sio"
    /\ CanReceive(c)
    /\ nFrames' = nFrames + 1
    /\ LET userId == sock[c].user
           key == ParseInt(targetUserId)
       IN  /\ out' = CallUser(activeUsers, sock, c, key, userId)
           /\ last' = Event("CALL_OFFER", c, userId,
                            IF MapHas(activeUsers, userId)
                            THEN activeUsers[userId] ELSE 0,
                            key, NoChannel)
    /\ UNCHANGED <<server, budget, outside, pending, sock, roomVars, connections, activeUsers, rooms, heap>>

VoiceEvents == {"voice-offer", "voice-answer", "ice-candidate", "video-offer"}

(* socket.on('voice-offer' / 'voice-answer' / 'ice-candidate' / 'video-offer') *)
OnVoiceSignal(c, event, targetUserId) ==
    /\ server = "sio"
    /\ CanReceive(c)
    /\ nFrames' = nFrames + 1
    /\ LET userId == sock[c].user
           key == ParseInt(targetUserId)
       IN  /\ out' = IF MapHas(activeUsers, key) /\ IsOpen(sock, activeUsers[key])
                     THEN <<SignalFrame(activeUsers[key], event, userId, Sdp)>>
                     ELSE <<>>
           /\ last' = Event(event, c, userId,
                            IF MapHas(activeUsers, userId)
                            THEN activeUsers[userId] ELSE 0,
                            key, NoChannel)
    /\ UNCHANGED <<server, budget, outside, pending, sock, roomVars, connections,
                   activeUsers, rooms, heap>>

(* The Socket.IO room of the one channel of the model *)
ChannelRoom == "channel:global"

(* content || null *)
ContentOrNull(content) == IF content = "" THEN "null" ELSE content

(* io.to(room).emit: every connected socket that joined the room *)
IoToRoom(K, room, type, msg) ==
    LET RECURSIVE From(_)
        From(d) == IF d > Len(K) THEN <<>>
                   ELSE (IF IsOpen(K, d) /\ K[d].room = room
                         THEN <<MsgFrame(d, type, msg)>> ELSE <<>>)
                        \o From(d + 1)
    IN  From(1)

(* socket.to(room).emit: as io.to(room), without the emitting socket *)
SocketToRoom(K, c, room, type, userId) ==
    LET RECURSIVE From(_)
        From(d) == IF d > Len(K) THEN <<>>
                   ELSE (IF d # c /\ IsOpen(K, d) /\ K[d].room = room
                         THEN <<EventFrame(d, type, userId)>> ELSE <<>>)
                        \o From(d + 1)
    IN  From(1)

(* socket.on('join-channel'): every user is a member of the channel's server *)
OnJoinChannel(c) ==
    /\ server = "sio"
    /\ CanReceive(c)
    /\ sock[c].room = ""
    /\ nFrames' = nFrames + 1
    /\ LET userId == sock[c].user
       IN  /\ sock' = [sock EXCEPT ![c].room = ChannelRoom]
           /\ out' = <<EventFrame(c, "channel-joined", "")>>
                     \o SocketToRoom(sock, c, ChannelRoom, "user-joined", userId)
           /\ last' = Event("join-channel", c, userId,
                            IF MapHas(activeUsers, userId)
                            THEN activeUsers[userId] ELSE 0,
                            "", Global)
    /\ UNCHANGED <<server, budget, outside, pending, roomVars, connections, activeUsers,
                   rooms, heap>>

(* A send-message handler that has inserted its row and waits for the      *)
(* SELECT of the full message                                              *)
Handler(c, message) ==
    [conn |-> c, msg |-> message, pc |-> "select", order |-> 0, to |-> {}]

(* socket.on('send-message'), up to the resolution of the INSERT.  The two *)
(* access checks before it read tables that no handler writes.  When the   *)
(* database rejects a statement the catch block tells the sending socket.  *)
OnSendMessage(c, content, dbFails) ==
    /\ server = "sio"
    /\ CanReceive(c)
    /\ nFrames' = nFrames + 1
    /\ LET userId == sock[c].user
           message == [id |-> appended[Global] + 1, channel_id |-> Global,
                       author_id |-> userId, content |-> ContentOrNull(content)]
       IN  /\ last' = Event(IF dbFails THEN "send-failed" ELSE "send-message",
                            c, userId,
                            IF MapHas(activeUsers, userId)
                            THEN activeUsers[userId] ELSE 0,
                            "", Global)
           /\ IF dbFails
              THEN /\ out' = <<EventFrame(c, "error", "")>>
                   /\ UNCHANGED <<messages, appended, pending>>
              ELSE /\ messages' = [messages EXCEPT ![Global] = Append(@, message)]
                   /\ appended' = [appended EXCEPT ![Global] = @ + 1]
                   /\ pending' = pending \cup {Handler(c, message)}
                   /\ out' = <<>>
    /\ UNCHANGED <<server, budget, outside, sock, sessions, storedFriends, storedNames,
                   connections, activeUsers, rooms, heap>>

(* The handlers that have emitted their message *)
Emitted == {h \in pending : h.pc = "done"}

(* The rest of a send-message handler: the SELECT resolves and the message *)
(* is emitted to the channel's room.  sqlite3 runs the statements of       *)
(* different handlers on its thread pool without an order between them, so *)
(* any waiting handler may be the next to resume.                          *)
OnMessageLoaded(h) ==
    /\ server = "sio"
    /\ h \in pending
    /\ h.pc = "select"
    /\ LET message == IF \E i \in 1..Len(messages[Global]) :
                             messages[Global][i] = h.msg
                      THEN h.msg ELSE NoMsg
           frames == IoToRoom(sock, ChannelRoom, "new-message", message)
       IN  /\ out' = frames \o
                     (IF MapHas(typingUsers, Global)
                      THEN ToJoined(sock, h.conn, Global, "user-stop-typing",
                                    h.msg.author_id)
                      ELSE <<>>)
           /\ typingUsers' = TypingDelete(typingUsers, Global, h.msg.author_id)
           /\ pending' = (pending \ {h}) \cup
                  {[h EXCEPT !.pc = "done",
                             !.order = Cardinality(Emitted) + 1,
                             !.to = {frames[i].to : i \in 1..Len(frames)}]}
    /\ last' = Event("new-message", h.conn, h.msg.author_id, h.conn, "", Global)
    /\ UNCHANGED <<server, budget, elsewhere, sock, roomVars, connections, activeUsers,
                   rooms, heap, nFrames>>

(* socket.on('start-typing') *)
OnStartTyping(c, channelId) ==
    /\ server = "sio"
    /\ CanReceive(c)
    /\ nFrames' = nFrames + 1
    /\ LET userId == sock[c].user
           typingSet == IF MapHas(typingUsers, channelId)
                        THEN typingUsers[channelId] ELSE {}
       IN  /\ typingUsers' = MapSet(typingUsers, channelId,
                                    typingSet \cup {userId})
           /\ out' = ToJoined(sock, c, channelId, "user-typing", userId)
           /\ last' = Event("start-typing", c, userId,
                            IF MapHas(activeUsers, userId)
                            THEN activeUsers[userId] ELSE 0,
                            "", channelId)
    /\ UNCHANGED <<server, budget, elsewhere, pending, sock, roomVars,
                   connections, activeUsers, rooms, heap>>

(* socket.on('stop-typing') *)
OnStopTyping(c, channelId) ==
    /\ server = "sio"
    /\ CanReceive(c)
    /\ nFrames' = nFrames + 1
    /\ LET userId == sock[c].user
       IN  /\ typingUsers' = TypingDelete(typingUsers, channelId, userId)
           /\ out' = IF MapHas(typingUsers, channelId)
                     THEN ToJoined(sock, c, channelId, "user-stop-typing",
                                   userId)
                     ELSE <<>>
           /\ last' = Event("stop-typing", c, userId,
                            IF MapHas(activeUsers, userId)
                            THEN activeUsers[userId] ELSE 0,
                            "", channelId)
    /\ UNCHANGED <<server, budget, elsewhere, pending, sock, roomVars,
                   connections, activeUsers, rooms, heap>>

(* servers.owner_id of the one server of the model *)
ServerOwner == "A"

(* SELECT * FROM messages WHERE id = ? *)
MessageById(log, messageId) ==
    IF \E i \in 1..Len(log) : log[i].id = messageId
    THEN log[CHOOSE i \in 1..Len(log) : log[i].id = messageId]
    ELSE NoMsg

(* DELETE FROM messages WHERE id = ? *)
DeleteById(log, messageId) ==
    LET RECURSIVE From(_)
        From(i) == IF i > Len(log) THEN <<>>
                   ELSE (IF log[i].id = messageId THEN <<>> ELSE <<log[i]>>)
                        \o From(i + 1)
    IN  From(1)

(* socket.on('delete-message'): the reads, the DELETE and the emit.  The   *)
(* room of the emit is built from the channelId of the frame.              *)
OnDeleteMessage(c, messageId, channelId) ==
    /\ server = "sio"
    /\ CanReceive(c)
    /\ nFrames' = nFrames + 1
    /\ LET userId == sock[c].user
           message == MessageById(messages[Global], messageId)
           canDelete == message.author_id = userId \/ ServerOwner = userId
           deleted == message # NoMsg /\ canDelete
       IN  /\ messages' = IF deleted
                          THEN [messages EXCEPT
                                   ![Global] = DeleteById(@, messageId)]
                          ELSE messages
           /\ out' = IF deleted
                     THEN IoToRoom(sock, RoomOf(channelId), "message-deleted",
                                   message)
                     ELSE <<EventFrame(c, "error", "")>>
           /\ last' = Event(IF deleted THEN "delete-message"
                            ELSE "delete-refused", c, userId,
                            IF MapHas(activeUsers, userId)
                            THEN activeUsers[userId] ELSE 0,
                            RoomOf(message.channel_id), channelId)
    /\ UNCHANGED <<server, budget, outside, pending, sock, sessions,
                   storedFriends, storedNames, appended, connections,
                   activeUsers, rooms, heap>>

NextSio ==
    \/ \E u \in Users : OnConnection(u)
    \/ \E c \in Conns : OnDisconnect(c)
    \/ \E c \in Conns, t \in TargetTexts : OnCallUser(c, t)

----------------------------------------------------------------------------
(* part_002 (node ws) and part_005 / part_003 (Worker): one room object per *)
(* ?room= query parameter, held in memory.  A room object is named by the   *)
(* connection whose handler created it; each connection's listeners keep    *)
(* the object they found at connect time (sock[c].obj).                     *)

WsServers == {"ws", "cfws"}

Senders == {"A"}

RoomObject(clients, msgs) == [clients |-> clients, messages |-> msgs]

(* A snapshot of the oldest entries instead of the most recent ones *)
SliceFirst(log, n) == SubSeq(log, 1, IF Len(log) > n THEN n ELSE Len(log))

(* room.messages.slice(-50) *)
SliceLast(log, n) ==
    IF Len(log) <= n THEN log ELSE SubSeq(log, Len(log) - n + 1, Len(log))

MsgData(id, userId, text, channel) ==
    [id |-> id, userId |-> userId, text |-> text, channel |-> channel]

WsPrefill(n, roomId) ==
    [i \in 1..n |-> MsgData(i, "A", "hi", roomId)]

(* A broadcast that does not leave the sender out *)
WsBroadcastToAll(K, clients, frame, exclude) ==
    LET RECURSIVE From(_)
        From(d) == IF d > Len(K) THEN <<>>
                   ELSE (IF d \in clients /\ IsOpen(K, d)
                         THEN <<[frame EXCEPT !.to = d]>> ELSE <<>>)
                        \o From(d + 1)
    IN  From(1)

(* The sends of one broadcast: every client of the room object that is not  *)
(* the sender and whose readyState is OPEN, in order of connection          *)
WsBroadcast(K, clients, frame, exclude) ==
    LET RECURSIVE From(_)
        From(d) == IF d > Len(K) THEN <<>>
                   ELSE (IF d \in clients /\ d # exclude /\ IsOpen(K, d)
                         THEN <<[frame EXCEPT !.to = d]>> ELSE <<>>)
                        \o From(d + 1)
    IN  From(1)

(* wss.on('connection') / fetch *)
WsConnect(roomId) ==
    /\ server \in WsServers
    /\ Len(sock) < budget.conns
    /\ Work < budget.work
    /\ LET c == Len(sock) + 1
           fresh == ~MapHas(rooms, roomId)
           o == IF fresh THEN c ELSE rooms[roomId]
           H == IF fresh THEN MapSet(heap, o, RoomObject({}, <<>>)) ELSE heap
           K == Append(sock, Sock("", roomId, o))
       IN  /\ sock' = K
           /\ rooms' = MapSet(rooms, roomId, o)
           /\ heap' = [H EXCEPT ![o].clients = @ \cup {c}]
           /\ appended' = IF fresh THEN MapSet(appended, o, 0) ELSE appended
           /\ out' = IF Len(H[o].messages) > 0
                     THEN <<Frame(c, "history", "", NoMsg, {},
                                  SliceLast(H[o].messages, HistoryLimit))>>
                     ELSE <<>>
           /\ last' = Event("connect", c, "", 0, roomId, NoChannel)
    /\ UNCHANGED <<server, budget, outside, pending, sessions, storedFriends, storedNames, messages,
                   connections, activeUsers, nFrames>>

(* ws.on('message') / handleMessage, type "message" *)
WsMessage(c, userId, text) ==
    /\ server \in WsServers
    /\ CanReceive(c)
    /\ nFrames' = nFrames + 1
    /\ LET o == sock[c].obj
           msgData == MsgData(appended[o] + 1, userId, text, sock[c].room)
       IN  /\ heap' = [heap EXCEPT
                          ![o].messages = AppendCapped(@, msgData, WsCap)]
           /\ appended' = [appended EXCEPT ![o] = @ + 1]
           /\ out' = WsBroadcast(sock, heap[o].clients,
                                 Frame(0, "new_message", userId, NoMsg, {},
                                       <<msgData>>), c)
           /\ last' = Event("message", c, userId, 0, sock[c].room, NoChannel)
    /\ UNCHANGED <<server, budget, outside, pending, sock, sessions, storedFriends, storedNames,
                   messages, connections, activeUsers, rooms>>

(* ws.on('close') / the close listener *)
WsOnClose(c) ==
    /\ server \in WsServers
    /\ c \in Conns
    /\ sock[c].readyState = CLOSED
    /\ ~sock[c].closeFired
    /\ LET o == sock[c].obj
           left == heap[o].clients \ {c}
       IN  /\ sock' = [sock EXCEPT ![c] = Gone]
           /\ heap' = [heap EXCEPT ![o].clients = left]
           /\ rooms' = IF left = {} THEN MapDelete(rooms, sock[c].room)
                       ELSE rooms
           /\ out' = <<>>
           /\ last' = Event("close", c, "", 0, sock[c].room, NoChannel)
    /\ UNCHANGED <<server, budget, outside, pending, sessions, storedFriends, storedNames, messages,
                   appended, connections, activeUsers, nFrames>>

(* part_005: the error listener *)
CfwsOnError(c) ==
    /\ server = "cfws"
    /\ c \in Conns
    /\ ~sock[c].closeFired
    /\ c \in heap[sock[c].obj].clients
    /\ heap' = [heap EXCEPT ![sock[c].obj].clients = @ \ {c}]
    /\ out' = <<>>
    /\ last' = Event("error", c, "", 0, sock[c].room, NoChannel)
    /\ UNCHANGED <<server, budget, outside, pending, sock, sessions, storedFriends, storedNames,
                   messages, appended, connections, activeUsers, rooms, nFrames>>

(* ws.on('message') / the message listener when JSON.parse throws: the     *)
(* try / catch around the handler logs the error                           *)
WsBadFrame(c) ==
    /\ server \in WsServers
    /\ CanReceive(c)
    /\ nFrames' = nFrames + 1
    /\ sock' = CatchAndLog(sock, c)
    /\ out' = <<>>
    /\ last' = Event("bad-frame", c, "", c, sock[c].room, NoChannel)
    /\ UNCHANGED <<server, budget, outside, pending, sessions, storedFriends,
                   storedNames, messages, appended, connections, activeUsers,
                   rooms, heap>>

NextWs ==
    \/ \E c \in Conns : TransportClose(c)
    \/ \E r \in RoomIds : WsConnect(r)
    \/ \E c \in Conns, u \in Senders, t \in Contents : WsMessage(c, u, t)
    \/ \E c \in Conns : WsOnClose(c)
    \/ \E c \in Conns : CfwsOnError(c)

----------------------------------------------------------------------------
(* part_014: the REST routes of the friends relation over the friends table *)
(* of database.js.  Every route reads with dbGet and then writes with       *)
(* dbRun; other requests run between the two.                               *)

(* The rows of the users table, and an id that no user has *)
ApiUsers == {"A", "B"}

NoSuchUser == "Z"

(* req.body.userId: a number, or a text that reads as that number *)
BodyIds == [id : ApiUsers \cup {NoSuchUser}, text : BOOLEAN]

(* The numeric order of the user ids *)
IdOf(u) == IF u = "A" THEN 1 ELSE IF u = "B" THEN 2 ELSE IF u = "C" THEN 3 ELSE 9

MathMin(a, b) == IF IdOf(a) <= IdOf(b) THEN a ELSE b

MathMax(a, b) == IF IdOf(a) <= IdOf(b) THEN b ELSE a

(* A row keyed by requester and target as they came *)
PairAsGiven(a, b) == <<a, b>>

(* user1 = Math.min(req.user.id, userId), user2 = Math.max(...) *)
Pair(a, b) == <<MathMin(a, b), MathMax(a, b)>>

(* userId === req.user.id: a text never equals a number *)
StrictEquals(body, me) == ~body.text /\ body.id = me

(* WHERE (user_id_1 = ? AND user_id_2 = ?) OR (user_id_1 = ? AND user_id_2 = ?) *)
RowsOf(a, b) ==
    {r \in friendsTable.rows :
        \/ r.user_id_1 = a /\ r.user_id_2 = b
        \/ r.user_id_1 = b /\ r.user_id_2 = a}

ApiEvent(op, me, body) == Event(op, 0, me, 0, body.id, NoChannel)

(* A route that has read the table and waits for its dbRun *)
Statement(kind, me, id, pair, status) ==
    [n |-> nFrames + 1, kind |-> kind, id |-> id, user_id_1 |-> pair[1],
     user_id_2 |-> pair[2], status |-> status, requested_by |-> me]

(* A route answers without writing *)
Respond(op, me, body) ==
    /\ last' = ApiEvent(op, me, body)
    /\ UNCHANGED pending

(* A route goes on to its dbRun *)
Proceed(op, me, body, statement) ==
    /\ last' = ApiEvent(op, me, body)
    /\ pending' = pending \cup {statement}

ApiRequest ==
    /\ server = "rest"
    /\ Work < budget.work
    /\ nFrames' = nFrames + 1
    /\ out' = <<>>
    /\ UNCHANGED <<server, budget, sock, roomVars, connections, activeUsers,
                   rooms, heap, friendsTable, browser, wire, client, typingUsers>>

(* POST /api/friends/request *)
PostRequest(me, body) ==
    /\ ApiRequest
    /\ IF StrictEquals(body, me) THEN Respond("request-400", me, body)
       ELSE IF body.id \notin ApiUsers THEN Respond("request-404", me, body)
       ELSE IF RowsOf(me, body.id) # {} THEN Respond("request-exists", me, body)
       ELSE Proceed("request", me, body,
                    Statement("insert", me, 0, Pair(me, body.id), "pending"))

(* POST /api/friends/accept *)
PostAccept(me, body) ==
    /\ ApiRequest
    /\ LET found == {r \in RowsOf(me, body.id) :
                        r.status = "pending" /\ r.requested_by = body.id}
       IN  IF found = {} THEN Respond("accept-404", me, body)
           ELSE LET friendship == CHOOSE r \in found : TRUE
                IN  Proceed("accept", me, body,
                            Statement("accept", me, friendship.id,
                                      <<friendship.user_id_1, friendship.user_id_2>>,
                                      "accepted"))

(* POST /api/friends/decline *)
PostDecline(me, body) ==
    /\ ApiRequest
    /\ LET found == {r \in RowsOf(me, body.id) : r.status = "pending"}
       IN  IF found = {} THEN Respond("decline-404", me, body)
           ELSE LET friendship == CHOOSE r \in found : TRUE
                IN  Proceed("decline", me, body,
                            Statement("delete", me, friendship.id,
                                      <<friendship.user_id_1, friendship.user_id_2>>,
                                      ""))

(* POST /api/friends/remove *)
PostRemove(me, body) ==
    /\ ApiRequest
    /\ LET found == {r \in RowsOf(me, body.id) : r.status = "accepted"}
       IN  IF found = {} THEN Respond("remove-404", me, body)
           ELSE LET friendship == CHOOSE r \in found : TRUE
                IN  Proceed("remove", me, body,
                            Statement("delete", me, friendship.id,
                                      <<friendship.user_id_1, friendship.user_id_2>>,
                                      ""))

(* POST /api/friends/block *)
PostBlock(me, body) ==
    /\ ApiRequest
    /\ IF StrictEquals(body, me) THEN Respond("block-400", me, body)
       ELSE IF RowsOf(me, body.id) # {}
       THEN LET existing == CHOOSE r \in RowsOf(me, body.id) : TRUE
            IN  Proceed("block", me, body,
                        Statement("block", me, existing.id,
                                  <<existing.user_id_1, existing.user_id_2>>,
                                  "blocked"))
       ELSE Proceed("block", me, body,
                    Statement("insert", me, 0, Pair(me, body.id), "blocked"))

(* UNIQUE(user_id_1, user_id_2) *)
UniqueViolated(h) ==
    \E r \in friendsTable.rows :
        r.user_id_1 = h.user_id_1 /\ r.user_id_2 = h.user_id_2

(* The dbRun of a waiting route resolves: INSERT (rejected by the UNIQUE    *)
(* constraint, or given the next AUTOINCREMENT id), UPDATE ... WHERE id = ? *)
(* or DELETE ... WHERE id = ?                                               *)
DbRun(h) ==
    /\ server = "rest"
    /\ h \in pending
    /\ pending' = pending \ {h}
    /\ out' = <<>>
    /\ LET rows == friendsTable.rows
           row == [id |-> friendsTable.lastID + 1, user_id_1 |-> h.user_id_1,
                   user_id_2 |-> h.user_id_2, status |-> h.status,
                   requested_by |-> h.requested_by]
       IN  IF h.kind = "insert"
           THEN IF UniqueViolated(h)
                THEN /\ UNCHANGED friendsTable
                     /\ last' = Event("insert-rejected", 0, h.requested_by, 0,
                                      "", NoChannel)
                ELSE /\ friendsTable' = [rows |-> rows \cup {row},
                                         lastID |-> friendsTable.lastID + 1]
                     /\ last' = Event("inserted", 0, h.requested_by, 0, "",
                                      NoChannel)
           ELSE IF h.kind = "accept"
           THEN /\ friendsTable' =
                       [friendsTable EXCEPT !.rows =
                           {IF r.id = h.id THEN [r EXCEPT !.status = h.status]
                            ELSE r : r \in rows}]
                /\ last' = Event("updated", 0, h.requested_by, 0, "", NoChannel)
           ELSE IF h.kind = "block"
           THEN /\ friendsTable' =
                       [friendsTable EXCEPT !.rows =
                           {IF r.id = h.id
                            THEN [r EXCEPT !.status = h.status,
                                           !.requested_by = h.requested_by]
                            ELSE r : r \in rows}]
                /\ last' = Event("updated", 0, h.requested_by, 0, "", NoChannel)
           ELSE /\ friendsTable' =
                       [friendsTable EXCEPT !.rows = {r \in rows : r.id # h.id}]
                /\ last' = Event("deleted", 0, h.requested_by, 0, "", NoChannel)
    /\ UNCHANGED <<server, budget, sock, roomVars, connections, activeUsers,
                   rooms, heap, browser, wire, client, typingUsers, nFrames>>

NextApi ==
    \/ \E me \in ApiUsers, body \in BodyIds : PostRequest(me, body)
    \/ \E me \in ApiUsers, body \in BodyIds : PostAccept(me, body)
    \/ \E me \in ApiUsers, body \in BodyIds : PostDecline(me, body)
    \/ \E me \in ApiUsers, body \in BodyIds : PostRemove(me, body)
    \/ \E me \in ApiUsers, body \in BodyIds : PostBlock(me, body)
    \/ \E h \in pending : DbRun(h)

----------------------------------------------------------------------------
(* The wire format: JSON.stringify({type, payload}) on the sending side,    *)
(* JSON.parse(event.data) on the receiving side (Room.js 51 and 338,        *)
(* part_010 255 and 305).  JavaScript values and JSON texts are kept apart. *)

(* JavaScript values *)
Str(s) == [kind |-> "string", v |-> s, fields |-> <<>>]

Num(s) == [kind |-> "number", v |-> s, fields |-> <<>>]

Infinity == Num("Infinity")

Null == [kind |-> "null", v |-> "", fields |-> <<>>]

Undefined == [kind |-> "undefined", v |-> "", fields |-> <<>>]

Obj(f) == [kind |-> "object", v |-> "", fields |-> f]

(* JSON texts *)
Lit(lit, chars) == [lit |-> lit, chars |-> chars, members |-> <<>>]

Members(m) == [lit |-> "object", chars |-> "", members |-> m]

(* A number too large for a double, as a peer may write it *)
Huge == "1e999"

(* An encoding that also leaves out the members whose value is null *)
RECURSIVE JsonStringifyNoNulls(_)
JsonStringifyNoNulls(x) ==
    IF x.kind = "string" THEN Lit("string", x.v)
    ELSE IF x.kind = "number"
    THEN (IF x = Infinity THEN Lit("null", "") ELSE Lit("number", x.v))
    ELSE IF x.kind = "null" THEN Lit("null", "")
    ELSE IF x.kind = "object"
    THEN Members([k \in {j \in DOMAIN x.fields :
                            x.fields[j].kind \notin {"undefined", "null"}}
                     |-> JsonStringifyNoNulls(x.fields[k])])
    ELSE Lit("undefined", "")

(* JSON.stringify: a member whose value is undefined is left out, a number  *)
(* that is not finite is written as null                                    *)
RECURSIVE JsonStringify(_)
JsonStringify(x) ==
    IF x.kind = "string" THEN Lit("string", x.v)
    ELSE IF x.kind = "number"
    THEN (IF x = Infinity THEN Lit("null", "") ELSE Lit("number", x.v))
    ELSE IF x.kind = "null" THEN Lit("null", "")
    ELSE IF x.kind = "object"
    THEN Members([k \in {j \in DOMAIN x.fields :
                            x.fields[j].kind # "undefined"}
                     |-> JsonStringify(x.fields[k])])
    ELSE Lit("undefined", "")

(* JSON.parse: a number literal beyond the range of a double reads as       *)
(* Infinity                                                                 *)
RECURSIVE JsonParse(_)
JsonParse(t) ==
    IF t.lit = "string" THEN Str(t.chars)
    ELSE IF t.lit = "number"
    THEN (IF t.chars = Huge THEN Infinity ELSE Num(t.chars))
    ELSE IF t.lit = "object"
    THEN Obj([k \in DOMAIN t.members |-> JsonParse(t.members[k])])
    ELSE Null

(* const { key } = payload *)
Get(payload, key) ==
    IF key \in DOMAIN payload.fields THEN payload.fields[key] ELSE Undefined

(* { type, payload } *)
Envelope(type, payload) == Obj([type |-> Str(type), payload |-> payload])

(* What a peer may write as the value of a payload member *)
MemberTexts ==
    {Lit("string", "video"), Lit("number", Huge), Lit("null", ""),
     Members([type |-> Lit("string", "offer"), sdp |-> Lit("string", "v=0")])}

(* The payload texts of an inbound frame: each of the two members the      *)
(* handler reads is present with some value, or missing                    *)
PayloadTexts(k1, k2) ==
    {Members(m) : m \in UNION {[ks -> MemberTexts] : ks \in SUBSET {k1, k2}}}

(* The payloads Room's handlers build for sendToUser / broadcastToFriends  *)
RoomPayload(type, userCode, payload) ==
    IF type = "INCOMING_CALL"
    THEN Obj([callerId |-> Str(userCode), offer |-> Get(payload, "offer"),
              callType |-> Get(payload, "callType")])
    ELSE IF type = "CALL_ANSWERED"
    THEN Obj([callerId |-> Str(userCode), answer |-> Get(payload, "answer")])
    ELSE IF type = "ICE_CANDIDATE"
    THEN Obj([fromUserId |-> Str(userCode),
              candidate |-> Get(payload, "candidate")])
    ELSE IF type = "FRIEND_UPDATED"
    THEN Obj([userId |-> Str(userCode), username |-> Get(payload, "nickname")])
    ELSE IF type = "CALL_ENDED" THEN Obj([userId |-> Str(userCode)])
    ELSE Obj([userCode |-> Str(userCode)])

(* The members of the inbound payload that the handler of each outbound    *)
(* type reads                                                              *)
ReadsOf(type) ==
    IF type = "INCOMING_CALL" THEN <<"offer", "callType">>
    ELSE IF type = "CALL_ANSWERED" THEN <<"answer", "answer">>
    ELSE IF type = "ICE_CANDIDATE" THEN <<"candidate", "candidate">>
    ELSE IF type = "FRIEND_UPDATED" THEN <<"nickname", "nickname">>
    ELSE <<"targetUserId", "targetUserId">>

RoomTypes == {"INCOMING_CALL", "CALL_ANSWERED", "ICE_CANDIDATE", "FRIEND_UPDATED",
              "CALL_ENDED", "USER_REGISTERED"}

(* The payloads the application hands to WebSocketClient.send *)
ClientPayloads ==
    {Obj([targetUserId |-> Str("B"),
          offer |-> Obj([type |-> Str("offer"), sdp |-> Str("v=0")]),
          callType |-> Str("video")]),
     Obj([channelId |-> Str("global"), content |-> Str("hi")]),
     Obj([nickname |-> Str("neo")]),
     Obj(<<>>)}

Sent(side, envelope) ==
    [pc |-> "sent", side |-> side, envelope |-> envelope,
     text |-> JsonStringify(envelope), received |-> Undefined]

wireOnly == <<server, budget, sock, roomVars, connections, activeUsers, rooms,
              heap, pending, friendsTable, browser, client, typingUsers,
              nFrames, out, last>>

(* Room.sendToUser: session.ws.send(JSON.stringify({ type, payload })), for *)
(* the frame that the message listener parsed                               *)
RoomSends(type, userCode, text) ==
    /\ server = "wire"
    /\ wire.pc # "sent"
    /\ wire' = Sent("server",
                    Envelope(type, RoomPayload(type, userCode, JsonParse(text))))
    /\ UNCHANGED wireOnly

(* WebSocketClient.send(type, payload) *)
ClientSends(type, payload) ==
    /\ server = "wire"
    /\ wire.pc # "sent"
    /\ wire' = Sent("client", Envelope(type, payload))
    /\ UNCHANGED wireOnly

(* The other side's onmessage: JSON.parse(event.data) *)
OnMessage ==
    /\ server = "wire"
    /\ wire.pc = "sent"
    /\ wire' = [wire EXCEPT !.pc = "received", !.received = JsonParse(wire.text)]
    /\ UNCHANGED wireOnly

NextWire ==
    \/ \E type \in RoomTypes, u \in Users :
          \E text \in PayloadTexts(ReadsOf(type)[1], ReadsOf(type)[2]) :
             RoomSends(type, u, text)
    \/ \E type \in {"CALL_OFFER", "MESSAGE_CREATE"}, payload \in ClientPayloads :
          ClientSends(type, payload)
    \/ OnMessage

----------------------------------------------------------------------------
(* The typing indicators of the two browser clients: socket-events.js keeps *)
(* one map and one timeout for all users, actions.js one set and one        *)
(* timeout per typing event.  Time passes in seconds; a timeout that is due *)
(* runs before the next second starts.                                      *)

Browsers == {"socket-events", "actions"}

(* The users whose typing events the client is told of *)
Typists == {"A", "B"}

(* setTimeout(..., 3000) in showTypingIndicator *)
ShowTimeout == 3

(* setTimeout(..., 5000) in setTyping *)
TypingTimeout == 5

(* The fixed timeout of the running client *)
Timeout == IF server = "socket-events" THEN ShowTimeout ELSE TypingTimeout

(* The seconds a typing event is followed for *)
MaxClock == 7

Timer(user, left) == [user |-> user, left |-> left]

browserOnly == <<server, budget, sock, roomVars, connections, activeUsers,
                 rooms, heap, pending, friendsTable, wire, client,
                 typingUsers, nFrames, out, last>>

(* socket.on('user-typing') -> showTypingIndicator: the one timeout is      *)
(* cleared and set again                                                    *)
ShowTypingIndicator(userId) ==
    /\ server = "socket-events"
    /\ typing' = typing \cup {userId}
    /\ timers' = {Timer("", ShowTimeout)}
    /\ clock' = [clock EXCEPT ![userId] = 0]
    /\ UNCHANGED browserOnly

(* socket.on('user-stop-typing') -> hideTypingIndicator *)
HideTypingIndicator(userId) ==
    /\ server = "socket-events"
    /\ typing' = typing \ {userId}
    /\ UNCHANGED <<timers, clock>>
    /\ UNCHANGED browserOnly

(* The callback of showTypingIndicator's timeout: typingUsersMap.clear() *)
ShowTimeoutFires ==
    /\ server = "socket-events"
    /\ Timer("", 0) \in timers
    /\ typing' = {}
    /\ timers' = {}
    /\ UNCHANGED clock
    /\ UNCHANGED browserOnly

(* actions.js setTyping: the user is added and one more timeout is set *)
SetTyping(userId) ==
    /\ server = "actions"
    /\ typing' = typing \cup {userId}
    /\ timers' = timers \cup {Timer(userId, TypingTimeout)}
    /\ clock' = [clock EXCEPT ![userId] = 0]
    /\ UNCHANGED browserOnly

(* The callback of one of setTyping's timeouts: the user is deleted *)
TypingTimeoutFires(t) ==
    /\ server = "actions"
    /\ t \in timers
    /\ t.left = 0
    /\ typing' = typing \ {t.user}
    /\ timers' = timers \ {t}
    /\ UNCHANGED clock
    /\ UNCHANGED browserOnly

(* One second passes; no timeout is due *)
Tick ==
    /\ server \in Browsers
    /\ \A t \in timers : t.left > 0
    /\ \E u \in Users : clock[u] < MaxClock
    /\ timers' = {Timer(t.user, t.left - 1) : t \in timers}
    /\ clock' = [u \in Users |-> IF clock[u] < MaxClock THEN clock[u] + 1
                                 ELSE clock[u]]
    /\ UNCHANGED typing
    /\ UNCHANGED browserOnly

NextTyping ==
    \/ \E u \in Typists : ShowTypingIndicator(u)
    \/ \E u \in Typists : HideTypingIndicator(u)
    \/ ShowTimeoutFires
    \/ \E u \in Typists : SetTyping(u)
    \/ \E t \in timers : TypingTimeoutFires(t)
    \/ Tick

----------------------------------------------------------------------------
(* Initial states *)

NoTransports ==
    /\ sock = <<>>
    /\ nFrames = 0
    /\ out = <<>>
    /\ last = NoEvent

NoRoomObject ==
    /\ sessions = EmptyMap
    /\ storedNames = {}
    /\ storedFriends = [u \in Users |-> {}]
    /\ messages = [ch \in Channels |-> <<>>]

NoGateway ==
    /\ connections = EmptyMap
    /\ activeUsers = EmptyMap
    /\ pending = {}

NoApi == friendsTable = [rows |-> {}, lastID |-> 0]

NoBrowser ==
    /\ typing = {}
    /\ timers = {}
    /\ clock = [u \in Users |-> 0]

NoWire == wire = [pc |-> "idle"]

NoClient == client = [ws |-> 0]

NoTyping == typingUsers = EmptyMap

NoRooms ==
    /\ rooms = EmptyMap
    /\ heap = EmptyMap

(* The Durable Object is constructed on the storage that earlier activations *)
(* left behind: A and C have stored a username and are friends, B has never  *)
(* stored a name; the global log holds `n` messages.                         *)
RoomOnStorage(n, b) ==
    /\ server = "room"
    /\ budget = b
    /\ NoTransports
    /\ sessions = EmptyMap
    /\ storedNames = {"A", "C"}
    /\ storedFriends = [u \in Users |->
                           IF u = "A" THEN {"C"} ELSE IF u = "C" THEN {"A"} ELSE {}]
    /\ messages = [ch \in Channels \cup {NoChannel} |->
                      IF ch = Global THEN Prefill(n, ch) ELSE <<>>]
    /\ appended = [ch \in Channels \cup {NoChannel} |-> Len(messages[ch])]
    /\ NoGateway
    /\ NoApi
    /\ NoBrowser
    /\ NoWire
    /\ NoClient
    /\ NoTyping
    /\ NoRooms

InitRoom == RoomOnStorage(0, Budget(MaxConns, MaxWork))

WorkerStart(b) ==
    /\ server = "worker"
    /\ budget = b
    /\ NoTransports
    /\ NoRoomObject
    /\ appended = [ch \in Channels |-> 0]
    /\ NoGateway
    /\ NoApi
    /\ NoBrowser
    /\ NoWire
    /\ NoClient
    /\ NoTyping
    /\ NoRooms

InitWorker == WorkerStart(Budget(MaxConns, MaxWork))

SioStart(b) ==
    /\ server = "sio"
    /\ budget = b
    /\ NoTransports
    /\ NoRoomObject
    /\ appended = [ch \in Channels |-> 0]
    /\ NoGateway
    /\ NoApi
    /\ NoBrowser
    /\ NoWire
    /\ NoClient
    /\ NoTyping
    /\ NoRooms

InitSio == SioStart(Budget(MaxConns, MaxWork))

WsStart(b) ==
    /\ server \in WsServers
    /\ budget = b
    /\ NoTransports
    /\ NoRoomObject
    /\ appended = EmptyMap
    /\ NoGateway
    /\ NoApi
    /\ NoBrowser
    /\ NoWire
    /\ NoClient
    /\ NoTyping
    /\ NoRooms

InitWs == WsStart(Budget(MaxConns, MaxWork))

Init == InitRoom \/ InitWorker \/ InitSio \/ InitWs

Next == NextRoom \/ NextWorker \/ NextSio \/ NextWs

Spec == Init /\ [][Next]_vars

SpecRoom == InitRoom /\ [][NextRoom]_vars

SpecWorker == InitWorker /\ [][NextWorker]_vars

SpecSio == InitSio /\ [][NextSio]_vars

SpecWs == InitWs /\ [][NextWs]_vars

(* The REST routes over the empty friends table that createTables leaves *)
InitApi ==
    /\ server = "rest"
    /\ budget = Budget(0, MaxRequests)
    /\ NoTransports
    /\ NoRoomObject
    /\ appended = [ch \in Channels |-> 0]
    /\ NoGateway
    /\ NoApi
    /\ NoBrowser
    /\ NoWire
    /\ NoClient
    /\ NoTyping
    /\ NoRooms

SpecApi == InitApi /\ [][NextApi]_vars

(* One connection's wire, before the first frame *)
InitWire ==
    /\ server = "wire"
    /\ budget = Budget(0, 0)
    /\ NoTransports
    /\ NoRoomObject
    /\ appended = [ch \in Channels |-> 0]
    /\ NoGateway
    /\ NoApi
    /\ NoBrowser
    /\ NoWire
    /\ NoClient
    /\ NoTyping
    /\ NoRooms

SpecWire == InitWire /\ [][NextWire]_vars

(* A browser client in which nobody has typed yet *)
InitTyping ==
    /\ server \in Browsers
    /\ budget = Budget(0, 0)
    /\ NoTransports
    /\ NoRoomObject
    /\ appended = [ch \in Channels |-> 0]
    /\ NoGateway
    /\ NoApi
    /\ NoBrowser
    /\ NoWire
    /\ NoClient
    /\ NoTyping
    /\ NoRooms

SpecTyping == InitTyping /\ [][NextTyping]_vars

----------------------------------------------------------------------------
(* Runs that start on long logs.  Only the handlers below read or write a   *)
(* message log, so the log of a run is decided by them alone.               *)

(* The global log of the Durable Object is one message below its cap *)
InitLogRoom == RoomOnStorage(RoomCap - 1, Budget(MaxLogConns, MaxLogWork))

(* The room servers hold their logs in memory only, so a long log exists    *)
(* only while its room has a client: the run starts with one client in room *)
(* "general" whose log is one message below the cap.  Room "dev" is created *)
(* empty on first reference.                                                *)
InitLogWs ==
    /\ server \in WsServers
    /\ budget = Budget(MaxLogConns, MaxLogWork)
    /\ sock = <<Sock("", "general", 1)>>
    /\ nFrames = 0
    /\ out = <<>>
    /\ last = NoEvent
    /\ NoRoomObject
    /\ rooms = MapSet(EmptyMap, "general", 1)
    /\ heap = MapSet(EmptyMap, 1,
                     RoomObject({1}, WsPrefill(WsCap - 1, "general")))
    /\ appended = MapSet(EmptyMap, 1, WsCap - 1)
    /\ NoGateway
    /\ NoApi
    /\ NoBrowser
    /\ NoWire
    /\ NoClient
    /\ NoTyping

InitLog == InitLogRoom \/ InitLogWs

NextLog ==
    \/ \E c \in Conns : TransportClose(c)
    \/ \E u \in Users : Fetch(u)
    \/ \E c \in Conns : OnClose(c)
    \/ \E c \in Conns, ch \in Channels, t \in Contents :
          HandleMessageCreate(c, ch, t)
    \/ \E r \in RoomIds : WsConnect(r)
    \/ \E c \in Conns, u \in Senders, t \in Contents : WsMessage(c, u, t)
    \/ \E c \in Conns : WsOnClose(c)
    \/ \E c \in Conns : CfwsOnError(c)

SpecLog == InitLog /\ [][NextLog]_vars

----------------------------------------------------------------------------
(* Runs of the servers that also see the remaining frame                   *)
(* types and the faults of their collaborators                             *)

InitFull ==
    \/ RoomOnStorage(0, Budget(MaxFullConns, MaxFullWork))
    \/ WorkerStart(Budget(MaxFullConns, MaxFullWork))
    \/ SioStart(Budget(MaxFullConns, MaxFullWork))
    \/ WsStart(Budget(MaxFullConns, MaxFullWork))

NextFull ==
    \/ NextRoom
    \/ NextWorker
    \/ NextSio
    \/ NextWs
    \/ \E c \in Conns, kind \in BadFrames : HandleBadFrame(c, kind)
    \/ \E c \in Conns : WsBadFrame(c)
    \/ \E c \in Conns, ty \in RelayTypes, t \in Users : HandleCallRelay(c, ty, t)
    \/ \E c \in Conns, ty \in RelayTypes, t \in Users, th \in BOOLEAN :
          WorkerForward(c, ty, t, th)
    \/ \E c \in Conns, ev \in VoiceEvents, t \in TargetTexts :
          OnVoiceSignal(c, ev, t)
    \/ \E c \in Conns, ch \in Channels : HandleMessageCreate(c, ch, EmptyContent)
    \/ \E c \in Conns, ch \in Channels, th \in BOOLEAN :
          WorkerMessageCreate(c, ch, EmptyContent, th)
    \/ \E c \in Conns, ch \in Channels, t \in Contents :
          HandleMessageCreateStorageDown(c, ch, t)
    \/ \E c \in Conns : HandleUnknownType(c)
    \/ \E c \in Conns : WorkerUnknownType(c)
    \/ \E c \in Conns : OnJoinChannel(c)
    \/ \E c \in Conns, t \in Contents \cup {EmptyContent}, f \in BOOLEAN :
          OnSendMessage(c, t, f)
    \/ \E h \in pending : OnMessageLoaded(h)

SpecFull == InitFull /\ [][NextFull]_vars

(* Frames of one run of the Socket.IO server with its channel events *)
MaxChannelWork == 5

(* part_012 with the channel events: join, send, typing and delete *)
NextChannels ==
    \/ NextSio
    \/ \E c \in Conns : OnJoinChannel(c)
    \/ \E c \in Conns : OnSendMessage(c, "hi", FALSE)
    \/ \E h \in pending : OnMessageLoaded(h)
    \/ \E c \in Conns, i \in 1..2 : OnStartTyping(c, ChannelIds[i])
    \/ \E c \in Conns, i \in 1..2 : OnStopTyping(c, ChannelIds[i])
    \/ \E c \in Conns, id \in 1..2, i \in 1..2 :
           OnDeleteMessage(c, id, ChannelIds[i])

InitChannels == SioStart(Budget(MaxFullConns, MaxChannelWork))

SpecChannels == InitChannels /\ [][NextChannels]_vars

----------------------------------------------------------------------------
(* part_010: class WebSocketClient, the browser's connection to the Room.  *)
(* client holds the fields of the object and the WebSocket objects it      *)
(* created that have not closed yet; each of them keeps the handlers of    *)
(* setupEventHandlers.  connect and disconnect are the calls of the page.  *)

Tokens == {"A", "B"}

(* Calls of connect and disconnect by the page in one run *)
MaxCalls == 3

(* WebSocket objects created in one run *)
MaxSockets == 6

(* reconnectInterval, maxReconnectInterval and reconnectDecay = 3 / 2 *)
ReconnectInterval == 1000

MaxReconnectInterval == 30000

DecayNum == 3

DecayDen == 2

(* localStorage.getItem('nebulaChat_token'): no code sets this key *)
StoredToken == ""

(* A number of milliseconds as a fraction in lowest terms *)
Ms(num, den) ==
    LET RECURSIVE Gcd(_, _)
        Gcd(a, b) == IF b = 0 THEN a ELSE Gcd(b, a % b)
        g == Gcd(num, den)
    IN  [num |-> num \div g, den |-> den \div g]

Leq(a, b) == a.num * b.den <= b.num * a.den

RECURSIVE Pow(_, _)
Pow(b, n) == IF n = 0 THEN 1 ELSE b * Pow(b, n - 1)

(* Math.min(reconnectInterval * Math.pow(reconnectDecay, attempts),        *)
(*          maxReconnectInterval)                                          *)
ReconnectTimeout(attempts) ==
    LET num == ReconnectInterval * Pow(DecayNum, attempts)
        den == Pow(DecayDen, attempts)
    IN  IF num <= MaxReconnectInterval * den
        THEN Ms(num, den) ELSE Ms(MaxReconnectInterval, 1)

NoTimer == [set |-> FALSE, pending |-> FALSE, timeout |-> Ms(0, 1)]

(* The 'Reconnecting in ...' lines of the console since the last           *)
(* 'WebSocket connected' line: how many, and the last two timeouts         *)
NoLines == [n |-> 0, timeout |-> Ms(0, 1), before |-> Ms(0, 1)]

(* token ? `${this.url}?token=${encodeURIComponent(token)}` : this.url *)
WsUrl(token) == IF token # "" THEN token ELSE ""

WebSocket(id, url, auto, wanted) ==
    [id |-> id, url |-> url, auto |-> auto, wanted |-> wanted,
     readyState |-> "connecting"]

(* this.ws?.readyState *)
ReadyState(C, id) ==
    IF \E s \in C.sockets : s.id = id
    THEN (CHOOSE s \in C.sockets : s.id = id).readyState
    ELSE "closed"

(* new WebSocketClient(WS_URL) *)
NewClient ==
    [sockets |-> {}, created |-> 0, calls |-> 0, called |-> "", token |-> "",
     ws |-> 0, reconnectAttempts |-> 0, reconnectTimer |-> NoTimer,
     isIntentionalClose |-> FALSE, connected |-> FALSE, lines |-> NoLines]

(* WebSocketClient.connect *)
ClientConnect(C, token, auto) ==
    IF ReadyState(C, C.ws) = "open" THEN C
    ELSE [C EXCEPT !.isIntentionalClose = FALSE,
                   !.created = @ + 1,
                   !.ws = C.created + 1,
                   !.sockets = @ \cup {WebSocket(C.created + 1, WsUrl(token),
                                                 auto, C.token)}]

(* WebSocketClient.scheduleReconnect; maxReconnectAttempts is null *)
ScheduleReconnect(C) ==
    LET timeout == ReconnectTimeout(C.reconnectAttempts)
    IN  [C EXCEPT !.reconnectTimer =
                      [set |-> TRUE, pending |-> TRUE, timeout |-> timeout],
                  !.lines = [n |-> @.n + 1, timeout |-> timeout,
                             before |-> @.timeout]]

(* A disconnect that does not mark the close as intended *)
CloseUnmarked(C) == C

(* this.isIntentionalClose = true *)
CloseIntentionally(C) == [C EXCEPT !.isIntentionalClose = TRUE]

(* ws.close() *)
CloseSocket(S, id) ==
    {IF s.id = id /\ s.readyState \in {"connecting", "open"}
     THEN [s EXCEPT !.readyState = "closing"] ELSE s : s \in S}

ClientEvent(op, id, token) == Event(op, id, token, 0, "", NoChannel)

clientOnly == <<server, budget, sock, roomVars, connections, activeUsers,
                rooms, heap, pending, friendsTable, browser, wire,
                typingUsers, nFrames, out>>

(* The page calls ws.connect(token) *)
Connect(token) ==
    /\ server = "websocket"
    /\ client.calls < MaxCalls
    /\ client.created < MaxSockets
    /\ client' = ClientConnect([client EXCEPT !.calls = @ + 1,
                                              !.called = "connect",
                                              !.token = token],
                               token, FALSE)
    /\ last' = ClientEvent("connect", client'.ws, token)
    /\ UNCHANGED clientOnly

(* The page calls ws.disconnect() *)
Disconnect ==
    /\ server = "websocket"
    /\ client.calls < MaxCalls
    /\ LET C == CloseIntentionally(client)
       IN  client' = [C EXCEPT !.calls = @ + 1,
                               !.called = "disconnect",
                               !.reconnectTimer =
                                   IF @.set THEN NoTimer ELSE @,
                               !.sockets = CloseSocket(@, C.ws),
                               !.ws = 0,
                               !.connected = FALSE]
    /\ last' = ClientEvent("disconnect", client.ws, "")
    /\ UNCHANGED clientOnly

(* ws.onopen *)
OnOpen(s) ==
    /\ server = "websocket"
    /\ s \in client.sockets
    /\ s.readyState = "connecting"
    /\ client' = [client EXCEPT
                     !.sockets = (@ \ {s}) \cup {[s EXCEPT !.readyState = "open"]},
                     !.connected = TRUE,
                     !.reconnectAttempts = 0,
                     !.lines = NoLines]
    /\ last' = ClientEvent("open", s.id, s.url)
    /\ UNCHANGED clientOnly

(* ws.onclose: the connection failed, was lost, or was closed *)
OnWsClose(s) ==
    /\ server = "websocket"
    /\ s \in client.sockets
    /\ LET C == [client EXCEPT !.sockets = @ \ {s}, !.connected = FALSE]
       IN  client' = IF ~C.isIntentionalClose THEN ScheduleReconnect(C) ELSE C
    /\ last' = ClientEvent("close", s.id, s.url)
    /\ UNCHANGED clientOnly

(* The callback of the reconnect timer *)
ReconnectTimerFires ==
    /\ server = "websocket"
    /\ client.reconnectTimer.pending
    /\ client.created < MaxSockets
    /\ client' = ClientConnect(
                     [client EXCEPT !.reconnectTimer.pending = FALSE,
                                    !.reconnectAttempts = @ + 1],
                     StoredToken, TRUE)
    /\ last' = ClientEvent("reconnect", client'.ws, StoredToken)
    /\ UNCHANGED clientOnly

NextClient ==
    \/ \E token \in Tokens : Connect(token)
    \/ Disconnect
    \/ \E s \in client.sockets : OnOpen(s)
    \/ \E s \in client.sockets : OnWsClose(s)
    \/ ReconnectTimerFires

(* A page that has constructed its WebSocketClient *)
InitClient ==
    /\ server = "websocket"
    /\ budget = Budget(0, 0)
    /\ NoTransports
    /\ NoRoomObject
    /\ appended = [ch \in Channels |-> 0]
    /\ NoGateway
    /\ NoApi
    /\ NoBrowser
    /\ NoWire
    /\ NoTyping
    /\ NoRooms
    /\ client = NewClient

SpecClient == InitClient /\ [][NextClient]_vars

----------------------------------------------------------------------------
(* script.js: the legacy client of the room-per-query-parameter servers.   *)
(* client holds its globals ws, wsReconnectAttempts and currentChannel,    *)
(* the WebSocket objects that have not closed yet and the number of        *)
(* reconnect timeouts that are scheduled.                                  *)

MAX_RECONNECT_ATTEMPTS == 5

(* Clicks on a channel item in one run *)
MaxClicks == 2

(* A client that schedules a reconnect after every close *)
AlwaysReconnect(attempts) == TRUE

(* if (wsReconnectAttempts < MAX_RECONNECT_ATTEMPTS) *)
MayReconnect(attempts) == attempts < MAX_RECONNECT_ATTEMPTS

(* initializeWebSocket: ws = new WebSocket(getWebSocketUrl()) *)
InitializeWebSocket(C) ==
    [C EXCEPT !.created = @ + 1,
              !.ws = C.created + 1,
              !.sockets = @ \cup {[id |-> C.created + 1,
                                   room |-> C.currentChannel,
                                   readyState |-> "connecting"]}]

(* The globals of the script before DOMContentLoaded *)
ScriptGlobals ==
    [sockets |-> {}, created |-> 0, clicks |-> 0, ws |-> 0,
     wsReconnectAttempts |-> 0, timeouts |-> 0, currentChannel |-> "general"]

ScriptEvent(op, id, attempts) ==
    Event(op, id, "", attempts, "", NoChannel)

(* The click listener of a channel item *)
ChannelClick(channel) ==
    /\ server = "script"
    /\ client.clicks < MaxClicks
    /\ client.created < MaxSockets
    /\ client' = InitializeWebSocket(
                     [client EXCEPT !.clicks = @ + 1,
                                    !.currentChannel = channel,
                                    !.sockets = CloseSocket(@, client.ws)])
    /\ last' = ScriptEvent("click", client.ws, client.wsReconnectAttempts)
    /\ UNCHANGED clientOnly

(* ws.onopen of a socket of the script *)
ScriptOnOpen(s) ==
    /\ server = "script"
    /\ s \in client.sockets
    /\ s.readyState = "connecting"
    /\ client' = [client EXCEPT
                     !.sockets = (@ \ {s}) \cup {[s EXCEPT !.readyState = "open"]},
                     !.wsReconnectAttempts = 0]
    /\ last' = ScriptEvent("open", s.id, client.wsReconnectAttempts)
    /\ UNCHANGED clientOnly

(* ws.onclose of a socket of the script *)
ScriptOnClose(s) ==
    /\ server = "script"
    /\ s \in client.sockets
    /\ LET C == [client EXCEPT !.sockets = @ \ {s}]
       IN  client' = IF MayReconnect(C.wsReconnectAttempts)
                     THEN [C EXCEPT !.wsReconnectAttempts = @ + 1,
                                    !.timeouts = @ + 1]
                     ELSE C
    /\ last' = ScriptEvent("close", s.id, client.wsReconnectAttempts)
    /\ UNCHANGED clientOnly

(* The callback of a reconnect timeout *)
ScriptTimeoutFires ==
    /\ server = "script"
    /\ client.timeouts > 0
    /\ client.created < MaxSockets
    /\ client' = InitializeWebSocket([client EXCEPT !.timeouts = @ - 1])
    /\ last' = ScriptEvent("reconnect", client.ws, client.wsReconnectAttempts)
    /\ UNCHANGED clientOnly

NextScript ==
    \/ \E channel \in RoomIds : ChannelClick(channel)
    \/ \E s \in client.sockets : ScriptOnOpen(s)
    \/ \E s \in client.sockets : ScriptOnClose(s)
    \/ ScriptTimeoutFires

(* The page after DOMContentLoaded: initializeWebSocket has run once *)
InitScript ==
    /\ server = "script"
    /\ budget = Budget(0, 0)
    /\ NoTransports
    /\ NoRoomObject
    /\ appended = [ch \in Channels |-> 0]
    /\ NoGateway
    /\ NoApi
    /\ NoBrowser
    /\ NoWire
    /\ NoTyping
    /\ NoRooms
    /\ client = InitializeWebSocket(ScriptGlobals)

SpecScript == InitScript /\ [][NextScript]_vars

----------------------------------------------------------------------------
(* Properties *)

(* The connection registry of the running server: user id -> connection *)
Registry ==
    IF server = "room" THEN [u \in DOMAIN sessions |-> sessions[u].ws]
    ELSE IF server = "worker" THEN connections
    ELSE IF server = "sio" THEN activeUsers
    ELSE EmptyMap

Min(a, b) == IF a < b THEN a ELSE b

OutIndexes == 1..Len(out)

(* C1: after a user registers, in any of the three registries (Room.sessions, *)
(* the worker's connections map, Socket.IO's activeUsers), the registry has   *)
(* one binding for that user and it resolves to the connection that           *)
(* registered last, also when the user was already bound to an earlier one.   *)
C1_LatestRegistrationWins ==
    (last.op = "connect" /\ server \in {"room", "worker", "sio"})
        => /\ MapHas(Registry, last.user)
           /\ Registry[last.user] = last.conn
           /\ Cardinality({u \in DOMAIN Registry : u = last.user}) = 1

(* C1 witness: a second registration of a user who was bound to an earlier, *)
(* different connection                                                     *)
C1_SecondRegistration ==
    /\ last.op = "connect"
    /\ server \in {"room", "worker", "sio"}
    /\ last.prev # 0
    /\ last.prev # last.conn

(* C2: in every reachable state every stored message log is at most as long *)
(* as its cap: 100 for each channel of the Room object, 1000 for each room  *)
(* of the room-per-query-parameter servers.                                 *)
C2_LogWithinCap ==
    /\ \A ch \in Channels : Len(messages[ch]) <= RoomCap
    /\ \A o \in DOMAIN heap : Len(heap[o].messages) <= WsCap

(* C2 witness: a Room log that is full after more than RoomCap appends *)
C2_FullLog ==
    /\ server = "room"
    /\ \E ch \in Channels :
          Len(messages[ch]) = RoomCap /\ appended[ch] > RoomCap

(* The log holds the last min(n, cap) of n appended messages, in the order *)
(* in which they were appended (message ids are append indexes)            *)
HoldsMostRecent(log, n, cap) ==
    /\ Len(log) = Min(n, cap)
    /\ \A i \in 1..Len(log) : log[i].id = n - Len(log) + i

(* C3: a log that started empty and was given n messages one after another  *)
(* holds exactly the min(n, cap) most recently appended ones in their       *)
(* original order; once n exceeds the cap, the oldest messages are the ones *)
(* that are gone.                                                           *)
C3_FifoEviction ==
    /\ server = "room" =>
          \A ch \in Channels : HoldsMostRecent(messages[ch], appended[ch], RoomCap)
    /\ server \in WsServers =>
          \A o \in DOMAIN heap :
              HoldsMostRecent(heap[o].messages, appended[o], WsCap)

(* C3 witness: a room log that was given two messages more than its cap *)
C3_TwoEvicted ==
    /\ server \in WsServers
    /\ \E o \in DOMAIN heap :
          appended[o] = WsCap + 2 /\ Len(heap[o].messages) = WsCap

(* The sender and the recipient of the direct message just handled are both *)
(* registered on open transports                                            *)
DmBetweenConnected ==
    /\ last.op = "MESSAGE_CREATE"
    /\ last.channel.dm
    /\ last.target # last.user
    /\ MapHas(Registry, last.user)
    /\ IsOpen(sock, Registry[last.user])
    /\ MapHas(Registry, last.target)
    /\ IsOpen(sock, Registry[last.target])

(* C4: when connected user A sends MESSAGE_CREATE on dm-B and B (another    *)
(* user) is connected, exactly two MESSAGE_CREATE frames are written: one   *)
(* to A's connection with channel_id dm-B, one to B's connection with       *)
(* channel_id dm-A; both carry the same message id and content and          *)
(* author_id A, and no other connection receives anything.                  *)
C4_DmTwoDeliveries ==
    DmBetweenConnected =>
        /\ Len(out) = 2
        /\ \E i, j \in OutIndexes :
              /\ i # j
              /\ out[i].to = Registry[last.user]
              /\ out[i].msg.channel_id = Dm(last.target)
              /\ out[j].to = Registry[last.target]
              /\ out[j].msg.channel_id = Dm(last.user)
        /\ \A k \in OutIndexes :
              /\ out[k].type = "MESSAGE_CREATE"
              /\ out[k].msg.author_id = last.user
              /\ out[k].msg.content = out[1].msg.content
              /\ out[k].msg.content \in Contents
              /\ out[k].msg.id = out[1].msg.id

(* C4 witness: a direct message between two connected users while a third *)
(* user is connected as well                                               *)
C4_DmWithBystander ==
    /\ DmBetweenConnected
    /\ \E d \in Conns :
          /\ IsOpen(sock, d)
          /\ sock[d].user \notin {last.user, last.target}

(* The two users a stored direct message runs between *)
DmPair(ch, m) == {m.author_id, ch.name}

(* C5: there is one stored log per unordered pair of users: two stored      *)
(* direct messages between the same two users, whichever of them sent each, *)
(* lie in the same log.                                                     *)
C5_OneLogPerPair ==
    \A ch1, ch2 \in Channels :
        (ch1.dm /\ ch2.dm /\ ch1 # ch2) =>
            \A i \in 1..Len(messages[ch1]), j \in 1..Len(messages[ch2]) :
                DmPair(ch1, messages[ch1][i]) # DmPair(ch2, messages[ch2][j])

(* C6: in friend-graph mode, a FRIEND_ONLINE event for user C is written    *)
(* only to connections of users in C's friend set: no connection of a user  *)
(* outside C's friend set ever receives FRIEND_ONLINE for C.                *)
C6_FriendOnlineOnlyToFriends ==
    \A i \in OutIndexes :
        out[i].type = "FRIEND_ONLINE" =>
            /\ out[i].to \in Conns
            /\ sock[out[i].to].user \in storedFriends[out[i].userId]

(* C6 witness: a user with a connected friend connects while a user outside *)
(* the friend set is connected too                                          *)
C6_FriendAndStrangerOnline ==
    /\ server = "room"
    /\ last.op = "connect"
    /\ \E i \in OutIndexes : out[i].type = "FRIEND_ONLINE"
    /\ \E d \in Conns :
          /\ IsOpen(sock, d)
          /\ MapHas(sessions, sock[d].user)
          /\ sessions[sock[d].user].ws = d
          /\ sock[d].user \notin storedFriends[last.user] \cup {last.user}

(* C7: in global mode (worker.js), when user C connects, every other        *)
(* connected user receives USER_CONNECTED for C, C does not, and C receives *)
(* a USERS_LIST that enumerates exactly the other connected users.          *)
C7_GlobalPresenceOnConnect ==
    (server = "worker" /\ last.op = "connect") =>
        LET others == (DOMAIN connections) \ {last.user}
        IN  /\ \E i \in OutIndexes :
                  /\ out[i].to = last.conn
                  /\ out[i].type = "USERS_LIST"
                  /\ out[i].friends = {[id |-> u, status |-> "online"] : u \in others}
            /\ \A u \in others :
                  IsOpen(sock, connections[u]) =>
                      \E i \in OutIndexes :
                          /\ out[i].to = connections[u]
                          /\ out[i].type = "USER_CONNECTED"
                          /\ out[i].userId = last.user
            /\ \A i \in OutIndexes :
                  out[i].type = "USER_CONNECTED" => out[i].to # last.conn

OfflineTypes == {"FRIEND_OFFLINE", "USER_DISCONNECTED", "user-offline"}

(* The connections that must learn that user u went offline: the registered *)
(* open connections of u's friends in friend-graph mode, those of all other *)
(* users in global mode                                                     *)
Audience(u) ==
    IF server = "room"
    THEN {d \in Conns : /\ IsOpen(sock, d)
                        /\ sock[d].user \in storedFriends[u]
                        /\ MapHas(sessions, sock[d].user)
                        /\ sessions[sock[d].user].ws = d}
    ELSE IF server = "worker"
    THEN {d \in Conns : /\ IsOpen(sock, d)
                        /\ sock[d].user # u
                        /\ MapHas(connections, sock[d].user)
                        /\ connections[sock[d].user] = d}
    ELSE IF server = "sio"
    THEN {d \in Conns : IsOpen(sock, d) /\ sock[d].user # u}
    ELSE {}

(* C8: when the registered connection of a user closes, an offline event    *)
(* for that user (FRIEND_OFFLINE, USER_DISCONNECTED or user-offline) is     *)
(* written to every connection of the audience that is connected then.      *)
C8_OfflineReachesAudience ==
    (last.op = "close" /\ last.prev = last.conn) =>
        \A d \in Audience(last.user) :
            \E i \in OutIndexes :
                /\ out[i].to = d
                /\ out[i].type \in OfflineTypes
                /\ out[i].userId = last.user

(* C9: a close event for a user who is no longer registered (an earlier     *)
(* close removed the user and no connect followed) changes nothing: the     *)
(* user stays absent from the registry and no offline event for that user   *)
(* is written a second time.                                                *)
C9_SecondCloseIsNoOp ==
    (last.op = "close" /\ last.prev = 0) =>
        /\ ~MapHas(Registry, last.user)
        /\ \A i \in OutIndexes :
              ~(out[i].type \in OfflineTypes /\ out[i].userId = last.user)

OfferTypes == {"INCOMING_CALL", "CALL_OFFER", "incoming-call"}

(* A call offer was just handled whose target has no registered connection *)
CallToUnregistered ==
    /\ last.op = "CALL_OFFER"
    /\ ~MapHas(Registry, last.target)

(* C10, as the code has it: a call offer to a target without a registered   *)
(* connection is delivered to nobody; the Socket.IO server answers the      *)
(* calling socket with exactly one call-error, while Room.js and worker.js  *)
(* write nothing at all.                                                    *)
C10_UnregisteredTargetPolicy ==
    CallToUnregistered =>
        /\ \A i \in OutIndexes : out[i].type \notin OfferTypes
        /\ server = "sio" => out = <<EventFrame(last.conn, "call-error", "")>>
        /\ server \in {"room", "worker"} => out = <<>>

(* C10 witness: a registered sender of the Room object offers a call to a *)
(* user who is not connected                                              *)
C10_RoomOfferToAbsentUser ==
    /\ server = "room"
    /\ CallToUnregistered
    /\ last.prev # 0
    /\ last.target \in Users

(* C10 as stated: a call offer to a target without a registered connection *)
(* is delivered to nobody and the sender gets an ERROR / call-error back.  *)
C10_ErrorBackToSender ==
    CallToUnregistered =>
        /\ \A i \in OutIndexes : out[i].type \notin OfferTypes
        /\ \E i \in OutIndexes :
              /\ out[i].to = last.conn
              /\ out[i].type \in {"ERROR", "call-error"}

SignalOps == {"CALL_OFFER"} \cup RelayTypes

SignalEventTypes ==
    {"INCOMING_CALL", "CALL_ANSWERED", "ICE_CANDIDATE", "CALL_ENDED"}
        \cup SignalOps \cup VoiceEvents

(* A signaling frame of a registered sender was just handled and its target *)
(* is registered on an open transport                                       *)
SignalToConnected ==
    /\ \/ server \in {"room", "worker"} /\ last.op \in SignalOps
       \/ server = "sio" /\ last.op \in VoiceEvents
    /\ last.prev # 0
    /\ last.target # last.user
    /\ MapHas(Registry, last.target)
    /\ IsOpen(sock, Registry[last.target])

(* C11: a signaling frame (CALL_OFFER, CALL_ANSWER, ICE_CANDIDATE, CALL_END; *)
(* voice-offer, voice-answer, ice-candidate, video-offer in Socket.IO) sent  *)
(* by S to a connected target T produces exactly one typed event, written to *)
(* T's connection only, that carries S's user id and the signaling payload   *)
(* unchanged.                                                                *)
C11_RelayCarriesSender ==
    SignalToConnected =>
        /\ Len(out) = 1
        /\ out[1].to = Registry[last.target]
        /\ out[1].type \in SignalEventTypes
        /\ out[1].userId = last.user
        /\ out[1].payload = RelayedPayload(last.op)

MessageFrameTypes == {"MESSAGE_CREATE", "new-message", "new_message"}

(* C12: a message whose content is empty is rejected: no stored log ever  *)
(* holds a message with empty content, and no connection other than the   *)
(* sender's receives a MESSAGE_CREATE / new-message with empty content.   *)
C12_EmptyContentRejected ==
    /\ \A ch \in Channels :
          \A i \in 1..Len(messages[ch]) : messages[ch][i].content # EmptyContent
    /\ \A i \in OutIndexes :
          (out[i].type \in MessageFrameTypes /\ out[i].to # last.conn)
              => out[i].msg.content # EmptyContent

(* C13: a message of a registered sender on a channel id without the DM   *)
(* prefix is delivered to every member of the room: every user that is    *)
(* registered on an open connection receives a MESSAGE_CREATE carrying it. *)
C13_GlobalReachesEveryone ==
    (last.op = "MESSAGE_CREATE" /\ ~last.channel.dm /\ last.prev # 0) =>
        \A u \in DOMAIN Registry :
            IsOpen(sock, Registry[u]) =>
                \E i \in OutIndexes :
                    /\ out[i].to = Registry[u]
                    /\ out[i].type = "MESSAGE_CREATE"
                    /\ out[i].msg.channel_id = last.channel
                    /\ out[i].msg.author_id = last.user

(* The id of the message the handler of the last event created *)
NewestId ==
    IF server = "room" THEN appended[last.channel]
    ELSE IF server = "worker" THEN nFrames
    ELSE IF server \in WsServers /\ last.conn \in Conns
    THEN appended[sock[last.conn].obj]
    ELSE 0

C15_AppendOrderIsEmissionOrder ==
    \A h1 \in Emitted, h2 \in Emitted :
        /\ h1.msg.channel_id = h2.msg.channel_id
        /\ h1.msg.id < h2.msg.id
        /\ h1.to \cap h2.to # {}
        => h1.order < h2.order

(* The connections that the message of the last event is addressed to *)
Addressees ==
    IF server = "sio"
    THEN {d \in Conns : IsOpen(sock, d) /\ sock[d].room = ChannelRoom}
    ELSE {Registry[u] : u \in {v \in DOMAIN Registry :
                                  \/ v = last.user
                                  \/ v = last.target
                                  \/ ~last.channel.dm}}
         \cap {d \in Conns : IsOpen(sock, d)}

(* C16: a message whose persistence failed is still written to every      *)
(* connected addressee.                                                    *)
C16_StoreDownStillDelivers ==
    last.op \in {"storage-failed", "send-failed"} =>
        \A d \in Addressees :
            \E i \in OutIndexes : /\ out[i].to = d
                                  /\ out[i].type \in MessageFrameTypes

(* C17: when the write to the recipient of a direct message fails (the     *)
(* recipient is registered on a transport that is no longer OPEN), the     *)
(* connected sender still gets the echo of the message.                    *)
C17_EchoSurvivesFailedWrite ==
    (/\ last.op = "MESSAGE_CREATE"
     /\ last.channel.dm
     /\ last.target # last.user
     /\ MapHas(Registry, last.target)
     /\ ~IsOpen(sock, Registry[last.target])
     /\ IsOpen(sock, last.prev))
    => \E i \in OutIndexes : /\ out[i].to = last.prev
                             /\ out[i].type = "MESSAGE_CREATE"
                             /\ out[i].msg.author_id = last.user

(* C18: handling an inbound frame of an unrecognised type changes neither  *)
(* the registry nor the friend sets nor the message logs, writes no frame, *)
(* and leaves the sender's transport as it was (open, and registered if it *)
(* was).                                                                   *)
C18_UnknownTypeIsNoOp ==
    [][(nFrames' # nFrames /\ last'.op = "unknown") =>
          /\ Registry' = Registry
          /\ sessions' = sessions
          /\ storedFriends' = storedFriends
          /\ storedNames' = storedNames
          /\ messages' = messages
          /\ appended' = appended
          /\ out' = <<>>
          /\ sock' = sock
          /\ IsOpen(sock', last'.conn)]_vars

(* C18 witness: an unknown frame was handled for a registered sender while *)
(* another user was registered                                             *)
C18_UnknownFromRegistered ==
    /\ last.op = "unknown"
    /\ last.prev = last.conn
    /\ IsOpen(sock, last.conn)
    /\ \E u \in DOMAIN Registry : u # last.user

OnlineTypes == {"FRIEND_ONLINE", "USER_CONNECTED", "user-online"}

(* C19: a user's online event is written only by the step that accepts a   *)
(* connection of that user, and a user's offline event only by the step    *)
(* that runs the close listener of a connection accepted earlier; so the   *)
(* offline event of a lifecycle never precedes its online event, and no    *)
(* online event of a lifecycle follows its offline event.                  *)
C19_PresenceInLifecycleOrder ==
    [][\A i \in 1..Len(out') :
          /\ out'[i].type \in OnlineTypes =>
                /\ last'.op = "connect"
                /\ last'.conn = Len(sock) + 1
                /\ IsOpen(sock', last'.conn)
                /\ out'[i].userId = sock'[last'.conn].user
          /\ out'[i].type \in OfflineTypes =>
                /\ last'.op = "close"
                /\ last'.conn \in Conns
                /\ ~sock[last'.conn].closeFired
                /\ sock'[last'.conn].closeFired
                /\ out'[i].userId = sock[last'.conn].user]_vars

(* C19 witness: an observer that was connected before the user's           *)
(* connection was accepted, and so got its online event, now gets the      *)
(* offline event of the same connection                                    *)
C19_LifecycleObserved ==
    /\ last.op = "close"
    /\ \E i \in OutIndexes : /\ out[i].type \in OfflineTypes
                             /\ out[i].userId = last.user
                             /\ out[i].to < last.conn

(* C20: a connect in the friend-graph Room writes USER_REGISTERED to the   *)
(* new connection first, then the FRIENDS_LIST snapshot to the new         *)
(* connection, and every FRIEND_ONLINE only after the snapshot.            *)
C20_RegisteredThenSnapshotThenOnline ==
    (server = "room" /\ last.op = "connect") =>
        /\ Len(out) >= 2
        /\ out[1].type = "USER_REGISTERED"
        /\ out[1].to = last.conn
        /\ out[1].userId = last.user
        /\ out[2].type = "FRIENDS_LIST"
        /\ out[2].to = last.conn
        /\ \A i \in OutIndexes :
              /\ i > 2 <=> out[i].type = "FRIEND_ONLINE"
              /\ out[i].to = last.conn => i <= 2 \/ last.user \in sessions[last.user].friends

(* C20 witness: a user connects while a friend of theirs is online *)
C20_ConnectWithFriendOnline ==
    /\ server = "room"
    /\ last.op = "connect"
    /\ \E i \in OutIndexes : /\ out[i].type = "FRIEND_ONLINE"
                             /\ out[i].to # last.conn
                             /\ out[i].userId = last.user

(* C21: the friends table holds at most one row per unordered pair of     *)
(* users, whatever requests ran and however their reads and writes         *)
(* interleaved.                                                            *)
C21_OneRowPerPair ==
    \A r1 \in friendsTable.rows, r2 \in friendsTable.rows :
        {r1.user_id_1, r1.user_id_2} = {r2.user_id_1, r2.user_id_2} => r1 = r2

(* C21 witness: B's request for A raced with a request that had already    *)
(* read the table: its INSERT was rejected and the pair keeps the row of    *)
(* the other one                                                           *)
C21_RacingInsertRejected ==
    /\ server = "rest"
    /\ last.op = "insert-rejected"
    /\ last.user = "B"
    /\ \E r \in friendsTable.rows :
          /\ r.user_id_1 = "A" /\ r.user_id_2 = "B" /\ r.requested_by = "A"

(* A user's friend set: the session's set when connected, the stored list  *)
(* otherwise                                                               *)
FriendSet(u) ==
    IF MapHas(sessions, u) THEN sessions[u].friends ELSE storedFriends[u]

(* C22: in the friend-graph Room, after every handler, B is in A's friend  *)
(* set if and only if A is in B's.                                         *)
C22_FriendshipSymmetric ==
    server = "room" =>
        \A a \in Users, b \in Users : b \in FriendSet(a) <=> a \in FriendSet(b)

(* C22 witness: B has just added a friend who is offline, and the friend's *)
(* stored list holds B                                                     *)
C22_AddedOfflineFriend ==
    /\ server = "room"
    /\ last.op = "ADD_FRIEND"
    /\ last.user = "B"
    /\ last.target # "B"
    /\ ~MapHas(sessions, last.target)
    /\ "B" \in storedFriends[last.target]
    /\ last.target \in sessions["B"].friends

(* An envelope that holds only JSON values: no member is undefined and no  *)
(* number is Infinity                                                       *)
RECURSIVE JsonSafe(_)
JsonSafe(x) ==
    /\ x.kind # "undefined"
    /\ x # Infinity
    /\ \A k \in DOMAIN x.fields : JsonSafe(x.fields[k])

(* C23 as stated: every envelope that was encoded and decoded is received  *)
(* as it was sent.                                                         *)
C23_RoundTripEveryEnvelope ==
    wire.pc = "received" => wire.received = wire.envelope

(* C23, amended: an envelope that holds only JSON values is received as it *)
(* was sent; of any other envelope the type is received as sent, and each  *)
(* payload member that holds a JSON value is received as sent.             *)
C23_RoundTripJsonValues ==
    wire.pc = "received" =>
        /\ JsonSafe(wire.envelope) => wire.received = wire.envelope
        /\ Get(wire.received, "type") = Get(wire.envelope, "type")
        /\ \A k \in DOMAIN Get(wire.envelope, "payload").fields :
              JsonSafe(Get(Get(wire.envelope, "payload"), k)) =>
                 Get(Get(wire.received, "payload"), k)
                    = Get(Get(wire.envelope, "payload"), k)

(* C23 witness: Room relayed an offer with a nested description and a null *)
(* call type, and the callee decoded it                                    *)
C23_NestedOfferDecoded ==
    /\ wire.pc = "received"
    /\ wire.side = "server"
    /\ JsonSafe(wire.envelope)
    /\ Get(wire.received, "type") = Str("INCOMING_CALL")
    /\ Get(Get(wire.received, "payload"), "offer").kind = "object"
    /\ Get(Get(wire.received, "payload"), "callType") = Null

(* C24: a user whose typing indicator is shown has typed within the fixed  *)
(* timeout of the client, whoever else is typing.                          *)
C24_IndicatorExpires ==
    server \in Browsers => \A u \in typing : clock[u] <= Timeout

(* C25: when the close listener of a superseded connection runs while the  *)
(* connection that replaced it is open, the user stays bound to the newer  *)
(* connection and no offline event for the user is written.                *)
C25_StaleCloseKeepsBinding ==
    (/\ last.op = "close"
     /\ last.prev \notin {0, last.conn}
     /\ IsOpen(sock, last.prev))
    => /\ MapHas(Registry, last.user)
       /\ Registry[last.user] = last.prev
       /\ \A i \in OutIndexes :
             ~(out[i].type \in OfflineTypes /\ out[i].userId = last.user)

(* C26: in the room-per-query-parameter worker every client whose          *)
(* transport is open is a member of the room object that is registered    *)
(* under the client's room id.                                             *)
C26_OpenClientIsMember ==
    server = "cfws" =>
        \A c \in Conns :
            IsOpen(sock, c) =>
                /\ MapHas(rooms, sock[c].room)
                /\ c \in heap[rooms[sock[c].room]].clients

(* C27: a message that was appended to the log of a room id, and that the  *)
(* cap has not evicted, is in the log that a client joining that room id   *)
(* is given: closes and reconnects remove nothing.                         *)
C27_LogSurvivesDisconnects ==
    server \in WsServers =>
        \A o \in DOMAIN heap, r \in DOMAIN rooms :
            \A i \in 1..Len(heap[o].messages) :
                (heap[o].messages[i].channel = r /\ appended[o] <= WsCap) =>
                    \E j \in 1..Len(heap[rooms[r]].messages) :
                        heap[rooms[r]].messages[j] = heap[o].messages[i]

(* C28: a client that connects to a room whose log holds n > 0 messages is *)
(* written exactly one frame, a history frame with the min(50, n) most     *)
(* recent messages in append order, as the first frame of its connection;  *)
(* a client that connects to a room with an empty log is written nothing.  *)
C28_HistoryOnConnect ==
    (server \in WsServers /\ last.op = "connect") =>
        LET log == heap[rooms[last.target]].messages
            n == Len(log)
            k == Min(HistoryLimit, n)
        IN  /\ last.conn = Len(sock)
            /\ n = 0 => out = <<>>
            /\ n > 0 =>
                  /\ Len(out) = 1
                  /\ out[1].type = "history"
                  /\ out[1].to = last.conn
                  /\ Len(out[1].history) = k
                  /\ \A j \in 1..k : out[1].history[j] = log[n - k + j]

(* C28 witness: a client connected to a room whose log holds more than 50  *)
(* messages and got the last 50                                            *)
C28_LongLogSnapshot ==
    /\ server \in WsServers
    /\ last.op = "connect"
    /\ Len(heap[rooms[last.target]].messages) > HistoryLimit
    /\ Len(out) = 1
    /\ Len(out[1].history) = HistoryLimit

(* C29: handling a frame that is not JSON, or whose handler throws, leaves *)
(* every transport, the registry, the friend sets and the room membership  *)
(* as they were and writes no frame; the sender's transport stays open.    *)
C29_BadFrameIsContained ==
    [][(nFrames' # nFrames /\ last'.op = "bad-frame") =>
          /\ sock' = sock
          /\ IsOpen(sock', last'.conn)
          /\ Registry' = Registry
          /\ sessions' = sessions
          /\ storedFriends' = storedFriends
          /\ storedNames' = storedNames
          /\ rooms' = rooms
          /\ heap' = heap
          /\ out' = <<>>]_vars

(* C29 witness: a MESSAGE_CREATE frame without channelId was handled for a *)
(* registered sender while another user was registered: the message was    *)
(* stored before the handler threw                                         *)
C29_ThrownAfterStore ==
    /\ server = "room"
    /\ last.op = "bad-frame"
    /\ last.prev = last.conn
    /\ IsOpen(sock, last.conn)
    /\ Len(messages[NoChannel]) > 0
    /\ \E u \in DOMAIN Registry : u # last.user /\ IsOpen(sock, Registry[u])

(* C30: a stored direct-message log holds one conversation: any two        *)
(* messages of one stored DM log run between the same two users, so a      *)
(* message of a third user to B is never stored with A's messages to B.    *)
C30_LogHoldsOneConversation ==
    \A ch \in Channels :
        ch.dm =>
            \A i, j \in 1..Len(messages[ch]) :
                DmPair(ch, messages[ch][i]) = DmPair(ch, messages[ch][j])

(* C31: in the room-per-query-parameter servers the new_message frames of  *)
(* a message sent by a client of room R go only to open clients that       *)
(* connected with room id R, and never to the sender.                      *)
C31_DeliveredInsideRoomOnly ==
    (server \in WsServers /\ last.op = "message") =>
        \A i \in OutIndexes :
            /\ out[i].to # last.conn
            /\ IsOpen(sock, out[i].to)
            /\ sock[out[i].to].room = sock[last.conn].room

(* C31 witness: a message was delivered to a room mate while a client of   *)
(* another room was open                                                   *)
C31_RoomMateAndOutsider ==
    /\ server \in WsServers
    /\ last.op = "message"
    /\ Len(out) > 0
    /\ \E d \in Conns : IsOpen(sock, d) /\ sock[d].room # sock[last.conn].room

(* C32: in the friend-graph Room no user is a member of their own friend   *)
(* set, neither in the session in memory nor in the persisted set.         *)
C32_NobodyIsOwnFriend ==
    server = "room" =>
        /\ \A u \in DOMAIN sessions : u \notin sessions[u].friends
        /\ \A u \in DOMAIN storedFriends : u \notin storedFriends[u]

C34_ReconnectKeepsToken ==
    server = "websocket" =>
        \A s \in client.sockets : s.auto => s.url = WsUrl(s.wanted)

(* C35: from a call of disconnect() until the page calls connect() again,  *)
(* no reconnect timer is pending and no WebSocket is created, whatever     *)
(* sockets close in between.                                               *)
C35_NoReconnectAfterDisconnect ==
    [][(server = "websocket" /\ client.called = "disconnect"
        /\ client'.called = "disconnect") =>
          /\ ~client.reconnectTimer.pending
          /\ ~client'.reconnectTimer.pending
          /\ client'.created = client.created]_vars

(* C35 witness: after disconnect() the socket it closed has fired its      *)
(* close event, and so has a socket that an earlier connect() left behind  *)
C35_ClosedAfterDisconnect ==
    /\ server = "websocket"
    /\ client.called = "disconnect"
    /\ last.op = "close"
    /\ client.sockets = {}
    /\ client.created >= 2
    /\ client.reconnectAttempts > 0

(* C36: every reconnect delay is within maxReconnectInterval; between two  *)
(* successful opens the delays never decrease; and the first delay after a *)
(* successful open is reconnectInterval again.                             *)
C36_BackoffRestartsAfterOpen ==
    (server = "websocket" /\ client.lines.n > 0) =>
        /\ Leq(client.lines.timeout, Ms(MaxReconnectInterval, 1))
        /\ client.lines.n >= 2 =>
               Leq(client.lines.before, client.lines.timeout)
        /\ client.lines.n = 1 =>
               client.lines.timeout = Ms(ReconnectInterval, 1)

(* The sockets of the browser client that are connecting or open *)
LiveSockets ==
    {s \in client.sockets : s.readyState \in {"connecting", "open"}}

(* C37: the legacy client has at most one WebSocket that is connecting or  *)
(* open at any time.                                                       *)
C37_OneLiveSocket ==
    server = "script" => Cardinality(LiveSockets) <= 1

(* C38: the legacy client schedules a reconnect only while fewer than      *)
(* MAX_RECONNECT_ATTEMPTS closes were counted, each scheduled reconnect    *)
(* counts one, and only a successful open sets the count back, to 0: so    *)
(* without an open at most MAX_RECONNECT_ATTEMPTS reconnects are scheduled.*)
C38_ReconnectsAreCounted ==
    [][server = "script" =>
          /\ client'.wsReconnectAttempts <= MAX_RECONNECT_ATTEMPTS
          /\ client'.timeouts > client.timeouts =>
                /\ client.wsReconnectAttempts < MAX_RECONNECT_ATTEMPTS
                /\ client'.wsReconnectAttempts = client.wsReconnectAttempts + 1
          /\ client'.wsReconnectAttempts < client.wsReconnectAttempts =>
                /\ last'.op = "open"
                /\ client'.wsReconnectAttempts = 0
          /\ (last'.op = "open" /\ client' # client) =>
                client'.wsReconnectAttempts = 0]_vars

(* C38 witness: a socket closed after five closes without an open, and no  *)
(* reconnect was scheduled for it                                          *)
C38_GaveUp ==
    /\ server = "script"
    /\ last.op = "close"
    /\ last.prev = MAX_RECONNECT_ATTEMPTS
    /\ client.timeouts = 0
    /\ client.sockets = {}

(* The users that have a socket whose disconnect listener has not run *)
LiveUsers == {sock[c].user : c \in {d \in Conns : IsOpen(sock, d)}}

(* C39: in the Socket.IO server every user id in a channel's typing set    *)
(* belongs to a user with at least one live socket; after a user's last    *)
(* socket disconnected the user is in no typing set.                       *)
C39_TypingUsersAreConnected ==
    server = "sio" =>
        \A ch \in DOMAIN typingUsers : typingUsers[ch] \subseteq LiveUsers

(* C39 witness: the only socket of a user who was typing has disconnected  *)
(* while another user is still typing                                      *)
C39_TypistLeft ==
    /\ server = "sio"
    /\ last.op = "close"
    /\ last.channel # NoChannel
    /\ last.user \notin LiveUsers
    /\ \E ch \in DOMAIN typingUsers : typingUsers[ch] # {}

(* C40: in the Socket.IO server the message-deleted event of a deleted     *)
(* message goes to the sockets joined to the room of the channel the       *)
(* message belongs to, whatever channelId the frame names.                 *)
C40_DeletedGoesToOwnChannel ==
    (server = "sio" /\ last.op = "delete-message") =>
        {out[i].to : i \in OutIndexes} =
            {d \in Conns : IsOpen(sock, d) /\ sock[d].room = last.target}

=============================================================================
